---- MODULE Spec2Model ----
(***************************************************************************)
(* RangeKeeper: the per-pool rebalance engine (RebalanceEngine), its band  *)
(* ledger (BandManager), the emergency stop flag, the state store and the  *)
(* on-chain collaborators it drives.  Every asynchronous method of the     *)
(* engine is cut at its awaits: one action per resumption.                 *)
(***************************************************************************)
EXTENDS Integers, Sequences, FiniteSets, TLC

(* ------------------------------ bounds --------------------------------- *)
MaxTasks == 2
MaxTokens == 9
MaxTime == 2
MaxFaults == 3
MaxBoots == 2
MaxOverlaps == 1

(* ------------------------- program constants --------------------------- *)
BAND_COUNT == 7
MIN_TICK == -887272
MAX_TICK == 887272
MAX_CONSECUTIVE_ERRORS == 3
MAX_REBALANCE_LOSS_PERCENT == 2
MS_PER_MINUTE == 60000

(* --------------------------- configuration ----------------------------- *)
\* pool entry of the integration fixtures: fee tier 100, width 3 %
FeeTier == 100
RangeWidthPercent == 3
MinRebalanceIntervalMinutes == 1
MaxTotalLossPercent == 10
DepegThresholdPercent == 5
StartTime == 100

\* pool ticks delivered by the monitor: 400 and 484 deviate less than 5 % from the
\* expected ratio, 520 deviates more; each of 484 and 520 lies in the upper trigger
\* zone of a layout centred at 400, 400 in the lower trigger zone and 520 in the safe
\* zone of a layout centred at 484
Ticks == {400, 484, 520}
\* balanceOf readings (token0, token1), in whole tokens
Balances == {<<100, 100>>, <<0, 100>>}

NoBand == [index |-> -1, tokenId |-> 0, tickLower |-> 0, tickUpper |-> 0]

(* ----------------------------- tick math ------------------------------- *)
feeToTickSpacing(feeTier) ==
  CASE feeTier = 100 -> 1
    [] feeTier = 500 -> 10
    [] feeTier = 3000 -> 60
    [] feeTier = 10000 -> 200

\* Math.round(tick / spacing) * spacing, pushed back inside the tick bounds
nearestUsableTick(tick, spacing) ==
  LET rounded == ((2 * tick + spacing) \div (2 * spacing)) * spacing
  IN  IF rounded < MIN_TICK THEN rounded + spacing
      ELSE IF rounded > MAX_TICK THEN rounded - spacing
      ELSE rounded

\* Math.floor(Math.log(1 + (w / 2) / 100) / Math.log(1.0001))
tickOffsetFor(w) ==
  CASE w = 1 -> 49
    [] w = 3 -> 148
    [] w = 10 -> 487

\* Math.pow(1.0001, tick), in units of 1/10000
tickToPrice(tick) ==
  CASE tick = 400 -> 10408
    [] tick = 484 -> 10496
    [] tick = 520 -> 10534

Max(a, b) == IF a >= b THEN a ELSE b
Min(a, b) == IF a <= b THEN a ELSE b

calculateBands(centerTick, w, feeTier) ==
  LET tickSpacing == feeToTickSpacing(feeTier)
      totalTickRange == tickOffsetFor(w) * 2
      rawBandWidth == totalTickRange \div BAND_COUNT
      bandTickWidth == Max((rawBandWidth \div tickSpacing) * tickSpacing, tickSpacing)
      centerBandIndex == BAND_COUNT \div 2
      alignedCenter == nearestUsableTick(centerTick, tickSpacing)
      centerBandLower == alignedCenter - ((bandTickWidth \div 2) \div tickSpacing) * tickSpacing
      totalTickLower == centerBandLower - centerBandIndex * bandTickWidth
      minTick == (-((-MIN_TICK) \div tickSpacing)) * tickSpacing
      maxTick == (MAX_TICK \div tickSpacing) * tickSpacing
      bs == [i \in 1..BAND_COUNT |->
               [index |-> i - 1,
                tickLower |-> Max(totalTickLower + (i - 1) * bandTickWidth, minTick),
                tickUpper |-> Min(totalTickLower + i * bandTickWidth, maxTick)]]
  IN  [ok |-> bs[BAND_COUNT].tickLower < bs[BAND_COUNT].tickUpper,
       bands |-> bs,
       bandTickWidth |-> bandTickWidth]

(* ----------------------------- BandManager ----------------------------- *)
\* the place of s[i] in ascending order of tickLower, equal keys in their old order
SortRank(s, i) ==
  Cardinality({j \in 1..Len(s) : \/ s[j].tickLower < s[i].tickLower
                                 \/ s[j].tickLower = s[i].tickLower /\ j < i}) + 1

\* [...bands].sort((a, b) => a.tickLower - b.tickLower): stable, ascending
SortByTickLower(s) ==
  [k \in 1..Len(s) |-> s[CHOOSE i \in 1..Len(s) : SortRank(s, i) = k]]

setBands(newBands, width) ==
  [bands |-> SortByTickLower(newBands), bandTickWidth |-> width]

Reindex(s) == [i \in 1..Len(s) |-> [s[i] EXCEPT !.index = i - 1]]

getBandIndexForTick(bs, tick) ==
  LET hits == {i \in 1..Len(bs) : tick >= bs[i].tickLower /\ tick < bs[i].tickUpper}
  IN  IF hits = {} THEN -1
      ELSE (CHOOSE i \in hits : \A j \in hits : i <= j) - 1

\* variant: the safe zone reaches one band further down
isInSafeZoneWide(bs, tick) ==
  LET idx == getBandIndexForTick(bs, tick)
      safeStart == (Len(bs) \div 2) - 2
      safeEnd == (Len(bs) \div 2) + 1
  IN  idx >= safeStart /\ idx <= safeEnd

isInSafeZone(bs, tick) ==
  LET idx == getBandIndexForTick(bs, tick)
      safeStart == (Len(bs) \div 2) - 1
      safeEnd == (Len(bs) \div 2) + 1
  IN  idx >= safeStart /\ idx <= safeEnd

\* bs is non-empty here: onPriceUpdate returns through the mint path otherwise
getTriggerDirection(bs, tick) ==
  LET idx == getBandIndexForTick(bs, tick)
  IN  IF idx = -1
      THEN IF tick < bs[1].tickLower THEN "lower"
           ELSE IF tick >= bs[Len(bs)].tickUpper THEN "upper"
           ELSE "none"
      ELSE IF idx <= 1 THEN "lower"
      ELSE IF idx >= Len(bs) - 2 THEN "upper"
      ELSE "none"

getBandToDissolve(bs, direction) ==
  IF direction = "lower" THEN bs[Len(bs)] ELSE bs[1]

\* variant: the new band goes to the end the dissolved band was taken from
getNewBandTicksSameEnd(bs, width, direction) ==
  IF direction = "lower"
  THEN [tickLower |-> bs[Len(bs)].tickUpper, tickUpper |-> bs[Len(bs)].tickUpper + width]
  ELSE [tickLower |-> bs[1].tickLower - width, tickUpper |-> bs[1].tickLower]

getNewBandTicks(bs, width, direction) ==
  IF direction = "lower"
  THEN [tickLower |-> bs[1].tickLower - width, tickUpper |-> bs[1].tickLower]
  ELSE [tickLower |-> bs[Len(bs)].tickUpper, tickUpper |-> bs[Len(bs)].tickUpper + width]

removeBand(bs, tokenId) ==
  Reindex(SelectSeq(bs, LAMBDA b : b.tokenId # tokenId))

\* variant: the new band is entered under the tokenId of the band next to it
addBandStale(bs, band, position) ==
  LET nb == [index |-> 0,
             tokenId |-> IF bs = <<>> THEN band.tokenId
                         ELSE IF position = "start" THEN bs[1].tokenId ELSE bs[Len(bs)].tokenId,
             tickLower |-> band.tickLower, tickUpper |-> band.tickUpper]
  IN  Reindex(IF position = "start" THEN <<nb>> \o bs ELSE Append(bs, nb))

addBand(bs, band, position) ==
  LET nb == [index |-> 0, tokenId |-> band.tokenId,
             tickLower |-> band.tickLower, tickUpper |-> band.tickUpper]
  IN  Reindex(IF position = "start" THEN <<nb>> \o bs ELSE Append(bs, nb))

(* ----------------------------- EmergencyStop --------------------------- *)
\* ((pre - post) / pre) * 100 > maxLossPercent, for pre > 0
checkRebalanceLoss(preValue, postValue) ==
  (preValue - postValue) * 100 > MAX_REBALANCE_LOSS_PERCENT * preValue

checkPortfolioLoss(currentValue, initialValue, maxLossPercent) ==
  (initialValue - currentValue) * 100 > maxLossPercent * initialValue

\* bal0 * price + bal1, in units of 1/10000 of token1
estimatePortfolioValue(balance0, balance1, price) ==
  IF price <= 0 THEN 0 ELSE balance0 * price + balance1 * 10000

(* ------------------------------- state --------------------------------- *)
VARIABLES
  state,              \* RebalanceEngine.state
  bands,              \* BandManager.bands
  bandTickWidth,      \* BandManager.bandTickWidth
  lastRebalanceTime,  \* RebalanceEngine.lastRebalanceTime (ms)
  consecutiveErrors,  \* RebalanceEngine.consecutiveErrors
  rebalanceLock,      \* RebalanceEngine.rebalanceLock
  stopped,            \* EmergencyStop.stopped
  initialValue,       \* BalanceTracker.initialValueUsd (0: unset)
  store,              \* StateStore.state.pools[id], in memory
  disk,               \* the state file
  chainOwned,         \* positions of the wallet, in the NFT manager's enumeration order
  nextTokenId,        \* next tokenId the NFT manager hands out
  now,                \* Date.now(), in minutes
  boot,               \* number of process starts so far
  wired,              \* main: price events are delivered to the engine
  initDone,           \* main: initialize() has been called in this process
  stopCalled,         \* stop() has been called in this process
  notifications,      \* kinds of messages handed to notifier.notify in this process
  tasks,              \* the asynchronous invocations in flight
  faults,             \* failures of the collaborators and crashes so far
  overlaps,           \* price updates delivered while an earlier one was in flight
  currentNonce,       \* NonceTracker.currentNonce (Undef: undefined)
  nonceCalls,         \* NonceTracker calls awaiting getTransactionCount
  nonceLast,          \* the NonceTracker call that returned last
  rpcUrlCount,        \* FailoverProvider.rpcUrls.length
  currentIndex,       \* FailoverProvider.currentIndex
  rpcConsecutiveErrors, \* FailoverProvider.consecutiveErrors
  errorRun,           \* recordError calls since the last recordSuccess or switch
  failovers,          \* main: the invocations of the failover callback, with their timers
  walletUrl           \* main: index of the URL behind ctx.wallet's provider

vars == <<state, bands, bandTickWidth, lastRebalanceTime, consecutiveErrors,
          rebalanceLock, stopped, initialValue, store, disk, chainOwned,
          nextTokenId, now, boot, wired, initDone, stopCalled, notifications, tasks,
          faults, overlaps, currentNonce, nonceCalls, nonceLast, rpcUrlCount, currentIndex,
          rpcConsecutiveErrors, errorRun, failovers, walletUrl>>

\* the chain connection of main: nonce tracker, failover provider, failover callback
rpcVars == <<currentNonce, nonceCalls, nonceLast, rpcUrlCount, currentIndex,
             rpcConsecutiveErrors, errorRun, failovers, walletUrl>>

TaskIds == 1..MaxTasks
Undef == -1
ExpectedPriceRatio == 10000

EmptyPoolState ==
  [bands |-> <<>>, bandTickWidth |-> Undef, lastRebalanceTime |-> Undef,
   rebalanceStage |-> "none", pendingTxHashes |-> <<>>]

IdleTask ==
  [pc |-> "idle", op |-> "none", tick |-> 0, dir |-> "none", preValue |-> 0,
   band |-> NoBand, mb |-> <<>>, bal0 |-> 0, bal1 |-> 0, ewBands |-> <<>>, ewI |-> 0,
   ret |-> "none", lo |-> 0, hi |-> 0, log |-> <<>>]

\* no NonceTracker call has returned yet
NoCall == [op |-> "none", persisted |-> Undef, latest |-> 0, pending |-> 0, before |-> Undef]

Init ==
  /\ state = "IDLE"
  /\ bands = <<>>
  /\ bandTickWidth = 0
  /\ lastRebalanceTime = 0
  /\ consecutiveErrors = 0
  /\ rebalanceLock = FALSE
  /\ stopped = FALSE
  /\ initialValue = 0
  /\ store = EmptyPoolState
  /\ disk = EmptyPoolState
  /\ chainOwned = <<>>
  /\ nextTokenId = 1
  /\ now = StartTime
  /\ boot = 1
  /\ wired = FALSE
  /\ initDone = FALSE
  /\ stopCalled = FALSE
  /\ notifications = {}
  /\ tasks = [t \in TaskIds |-> IdleTask]
  /\ faults = 0
  /\ overlaps = 0
  /\ currentNonce = Undef
  /\ nonceCalls = <<>>
  /\ nonceLast = NoCall
  /\ rpcUrlCount = 1
  /\ currentIndex = 0
  /\ rpcConsecutiveErrors = 0
  /\ errorRun = 0
  /\ failovers = <<>>
  /\ walletUrl = 0

(* ------------------------- persistence helpers ------------------------- *)
BandStates(bs) ==
  [i \in 1..Len(bs) |->
     [tokenId |-> bs[i].tokenId, tickLower |-> bs[i].tickLower, tickUpper |-> bs[i].tickUpper]]

\* the update persistState hands to updatePoolState
persistStateUpdate(bs, width, lrt) ==
  [bands |-> BandStates(bs), bandTickWidth |-> width, lastRebalanceTime |-> lrt,
   rebalanceStage |-> "none", pendingTxHashes |-> <<>>]

\* the update persistCheckpoint hands to updatePoolState
persistCheckpointUpdate(bs, width, lrt, stage, txHashes) ==
  [bands |-> BandStates(bs), bandTickWidth |-> width, lastRebalanceTime |-> lrt,
   rebalanceStage |-> stage, pendingTxHashes |-> txHashes]

\* a collaborator fails or the process dies; a run has failures or overlapping
\* deliveries, not both
Fault == overlaps = 0 /\ faults < MaxFaults /\ faults' = faults + 1
NoFault == faults' = faults

\* variant: a failed write is logged and the caller goes on, as save() does
saveNoThrow(newStore, goesOn, thrown) ==
  \/ disk' = newStore /\ NoFault /\ goesOn
  \/ disk' = disk /\ Fault /\ goesOn

\* StateStore.saveOrThrow(): writes the file and goes on, or throws
saveOrThrow(newStore, goesOn, thrown) ==
  \/ disk' = newStore /\ NoFault /\ goesOn
  \/ disk' = disk /\ Fault /\ thrown

\* StateStore.save(): writes the file, or logs the failure and goes on
save(newStore) ==
  \/ disk' = newStore /\ NoFault
  \/ disk' = disk /\ Fault

(* ------------------------------ the chain ------------------------------ *)
OwnedIndex(tokenId) ==
  IF \E i \in 1..Len(chainOwned) : chainOwned[i].tokenId = tokenId
  THEN CHOOSE i \in 1..Len(chainOwned) : chainOwned[i].tokenId = tokenId
  ELSE 0

\* the wallet owns the position and it still holds liquidity
Removable(tokenId) ==
  OwnedIndex(tokenId) # 0 /\ chainOwned[OwnedIndex(tokenId)].liq

\* decreaseLiquidity, collect and burn confirmed
Burn(tokenId) == SelectSeq(chainOwned, LAMBDA p : p.tokenId # tokenId)

\* decreaseLiquidity confirmed, collect or burn did not
Drain(tokenId) ==
  LET i == OwnedIndex(tokenId)
  IN  IF i = 0 THEN chainOwned ELSE [chainOwned EXCEPT ![i].liq = FALSE]

\* variant: the pool accepts any pair of ticks
MintableAny(tickLower, tickUpper) == TRUE

\* nftManager.mint reverts unless the pool accepts the ticks of the position
Mintable(tickLower, tickUpper) ==
  /\ tickLower < tickUpper
  /\ tickLower >= MIN_TICK
  /\ tickUpper <= MAX_TICK

MintOnChain(tickLower, tickUpper) ==
  Append(chainOwned, [tokenId |-> nextTokenId, tickLower |-> tickLower,
                      tickUpper |-> tickUpper, liq |-> TRUE])

(* --------------------------- engine helpers ---------------------------- *)
Busy(t) == tasks[t].pc # "idle"

\* variant: the error budget is never exhausted
handleErrorNoLimit(t) ==
  /\ consecutiveErrors' = consecutiveErrors + 1
  /\ state' = "MONITORING"
  /\ UNCHANGED <<stopped, notifications>>
  /\ rebalanceLock' = FALSE
  /\ tasks' = [tasks EXCEPT ![t] = IdleTask]

\* variant: the catch block leaves without releasing the lock
handleErrorLocked(t) ==
  /\ consecutiveErrors' = consecutiveErrors + 1
  /\ IF consecutiveErrors + 1 >= MAX_CONSECUTIVE_ERRORS
     THEN /\ state' = "ERROR"
          /\ stopped' = TRUE
          /\ notifications' = notifications \cup {"ALERT_ERRORS"}
     ELSE /\ state' = "MONITORING"
          /\ UNCHANGED <<stopped, notifications>>
  /\ UNCHANGED rebalanceLock
  /\ tasks' = [tasks EXCEPT ![t] = IdleTask]

\* catch (err) { this.handleError(op, err) } finally { this.rebalanceLock = false }
handleError(t) ==
  /\ consecutiveErrors' = consecutiveErrors + 1
  /\ IF consecutiveErrors + 1 >= MAX_CONSECUTIVE_ERRORS
     THEN /\ state' = "ERROR"
          /\ stopped' = TRUE
          /\ notifications' = notifications \cup {"ALERT_ERRORS"}
     ELSE /\ state' = "MONITORING"
          /\ UNCHANGED <<stopped, notifications>>
  /\ rebalanceLock' = FALSE
  /\ tasks' = [tasks EXCEPT ![t] = IdleTask]

\* variant: the counter survives a success
keepErrors == UNCHANGED consecutiveErrors

\* this.consecutiveErrors = 0, after the last mint of an operation
resetErrors == consecutiveErrors' = 0

\* a collaborator fails: the call rejects, the write throws
handleFault(t) == Fault /\ handleError(t)

Ev(e, id, lo, hi, x) ==
  [e |-> e, tokenId |-> id, tickLower |-> lo, tickUpper |-> hi, x |-> x]

Abs(x) == IF x < 0 THEN -x ELSE x

\* variant: the check also fires on every tick once the emergency stop is set
checkDepegLatched(tick) ==
  /\ ExpectedPriceRatio # 0
  /\ \/ stopped
     \/ Abs(tickToPrice(tick) - ExpectedPriceRatio) * 100 > DepegThresholdPercent * ExpectedPriceRatio

\* checkDepeg: |price - expected| / expected * 100 > threshold
checkDepeg(tick) ==
  /\ ExpectedPriceRatio # 0
  /\ Abs(tickToPrice(tick) - ExpectedPriceRatio) * 100 > DepegThresholdPercent * ExpectedPriceRatio

FromBandStates(bs) ==
  [i \in 1..Len(bs) |->
     [index |-> i - 1, tokenId |-> bs[i].tokenId,
      tickLower |-> bs[i].tickLower, tickUpper |-> bs[i].tickUpper]]

RecoveryNote(stage) ==
  IF stage = "WITHDRAWN" THEN "RECOVERY_WITHDRAWN" ELSE "RECOVERY_SWAPPED"

\* variant: the interval gate never closes
tooSoonNever == FALSE

\* elapsed < minInterval, with elapsed = Date.now() - this.lastRebalanceTime
tooSoon ==
  now * MS_PER_MINUTE - lastRebalanceTime < MinRebalanceIntervalMinutes * 60 * 1000

\* a task past the last use of its locals: position, operation, event log
Past(task, pc) == [IdleTask EXCEPT !.pc = pc, !.op = task.op, !.log = task.log]

\* the first part of emergencyWithdraw, up to its first await (bands non-empty)
ewStart(task, ret) ==
  [task EXCEPT !.pc = "ew_getPos", !.ewBands = bands, !.ewI = 1, !.ret = ret]

(* ------------------------------ process -------------------------------- *)
\* the process ends (crash, kill or exit) and main starts again on the state file
Restart ==
  /\ boot < MaxBoots
  /\ Fault
  /\ boot' = boot + 1
  /\ state' = "IDLE"
  /\ bands' = <<>>
  /\ bandTickWidth' = 0
  /\ lastRebalanceTime' = 0
  /\ consecutiveErrors' = 0
  /\ rebalanceLock' = FALSE
  /\ stopped' = FALSE
  /\ initialValue' = 0
  /\ store' = disk
  /\ wired' = FALSE
  /\ initDone' = FALSE
  /\ stopCalled' = FALSE
  /\ notifications' = {}
  /\ tasks' = [t \in TaskIds |-> IdleTask]
  /\ UNCHANGED <<disk, chainOwned, nextTokenId, now, overlaps>>
  /\ UNCHANGED rpcVars

\* time passes; only followed while the interval gate is closed
ClockTick ==
  /\ now < StartTime + MaxTime
  /\ tooSoon
  /\ now' = now + 1
  /\ UNCHANGED <<state, bands, bandTickWidth, lastRebalanceTime, consecutiveErrors,
                 rebalanceLock, stopped, initialValue, store, disk, chainOwned,
                 nextTokenId, boot, overlaps, wired, initDone, stopCalled, notifications, tasks,
                 faults>>
  /\ UNCHANGED rpcVars

\* variant: the recovery leaves the persisted stage in place
clearedPoolStateKeepStage(saved) ==
  [saved EXCEPT !.pendingTxHashes = <<>>, !.bands = <<>>, !.bandTickWidth = Undef]

\* updatePoolState(id, { rebalanceStage: undefined, pendingTxHashes: undefined,
\*                       bands: undefined, bandTickWidth: undefined })
clearedPoolState(saved) ==
  [saved EXCEPT !.rebalanceStage = "none", !.pendingTxHashes = <<>>,
                !.bands = <<>>, !.bandTickWidth = Undef]

\* one call of initialize() on an engine whose ledger, lastRebalanceTime and state are
\* those of `eng`, with `saved` the pool state of the state store and `owned` the
\* positions of the wallet; outcome: the call returns ("ok"), or the RECOVERY
\* notification, findExistingPositions or an approval rejects
initializeCall(eng, saved, owned, outcome) ==
  LET hasBands == Len(saved.bands) > 0
      restored == IF hasBands
                  THEN setBands(FromBandStates(saved.bands),
                                IF saved.bandTickWidth = Undef THEN 0 ELSE saved.bandTickWidth)
                  ELSE [bands |-> eng.bands, bandTickWidth |-> eng.bandTickWidth]
      lrt == IF hasBands
             THEN (IF saved.lastRebalanceTime = Undef THEN 0 ELSE saved.lastRebalanceTime)
             ELSE eng.lastRebalanceTime
      recovering == saved.rebalanceStage # "none"
      afterRec == IF recovering THEN setBands(<<>>, 0) ELSE restored
      lookup == Len(afterRec.bands) = 0
      active == SelectSeq(owned, LAMBDA p : p.liq)
      activeBands == [i \in 1..Len(active) |->
                        [index |-> i - 1, tokenId |-> active[i].tokenId,
                         tickLower |-> active[i].tickLower, tickUpper |-> active[i].tickUpper]]
      bandWidth == IF Len(active) > 1
                   THEN activeBands[2].tickLower - activeBands[1].tickLower
                   ELSE activeBands[1].tickUpper - activeBands[1].tickLower
      adopted == IF lookup /\ Len(active) > 0
                 THEN setBands(activeBands, bandWidth)
                 ELSE afterRec
      threwEarly == outcome \in {"notifyReject", "findFail"}
      final == IF threwEarly THEN afterRec ELSE adopted
  IN  [bands |-> final.bands,
       bandTickWidth |-> final.bandTickWidth,
       lastRebalanceTime |-> lrt,
       state |-> IF outcome = "ok" THEN "MONITORING" ELSE eng.state,
       store |-> IF recovering THEN clearedPoolState(saved) ELSE saved,
       recovering |-> recovering,
       lookup |-> lookup]

\* RebalanceEngine.initialize, called once by main before the events are wired
initialize ==
  /\ ~initDone
  /\ initDone' = TRUE
  /\ \E outcome \in {"ok", "notifyReject", "findFail", "approveFail"} :
       LET r == initializeCall([bands |-> bands, bandTickWidth |-> bandTickWidth,
                                lastRebalanceTime |-> lastRebalanceTime, state |-> state],
                               store, chainOwned, outcome)
       IN  /\ outcome = "notifyReject" => r.recovering
           /\ outcome = "findFail" => r.lookup
           /\ bands' = r.bands
           /\ bandTickWidth' = r.bandTickWidth
           /\ lastRebalanceTime' = r.lastRebalanceTime
           /\ IF r.recovering
              THEN /\ store' = r.store
                   /\ notifications' = notifications \cup {RecoveryNote(store.rebalanceStage)}
                   /\ IF outcome = "ok" THEN save(r.store) ELSE disk' = r.store /\ Fault
              ELSE /\ UNCHANGED <<store, disk, notifications>>
                   /\ IF outcome = "ok" THEN NoFault ELSE Fault
           /\ state' = r.state
           /\ IF outcome = "ok" THEN wired' = TRUE ELSE UNCHANGED wired
  /\ UNCHANGED <<consecutiveErrors, rebalanceLock, stopped, initialValue, chainOwned,
                 nextTokenId, now, boot, overlaps, stopCalled, tasks>>
  /\ UNCHANGED rpcVars

\* RebalanceEngine.stop: setState('STOPPED'), poolMonitor.stopMonitoring()
stop ==
  /\ initDone
  /\ ~stopCalled
  /\ stopCalled' = TRUE
  /\ state' = "STOPPED"
  /\ wired' = FALSE
  /\ UNCHANGED <<bands, bandTickWidth, lastRebalanceTime, consecutiveErrors, rebalanceLock,
                 stopped, initialValue, store, disk, chainOwned, nextTokenId, now, boot, overlaps,
                 initDone, notifications, tasks, faults>>
  /\ UNCHANGED rpcVars

(* ---------------------------- onPriceUpdate ---------------------------- *)
FreeSlot(t) == ~Busy(t) /\ \A u \in TaskIds : u < t => Busy(u)

\* onPriceUpdate up to its first await: checkDepeg, then the synchronous head of
\* emergencyWithdraw, mintInitialBands or executeBandRebalance
onPriceUpdate(t, tick) ==
  /\ wired
  /\ FreeSlot(t)
  /\ state \in {"MONITORING", "IDLE"}
  /\ IF \E u \in TaskIds : Busy(u)
     THEN faults = 0 /\ overlaps < MaxOverlaps /\ overlaps' = overlaps + 1
     ELSE overlaps' = overlaps
  /\ UNCHANGED <<lastRebalanceTime, initialValue, store, disk, chainOwned, nextTokenId,
                 now, boot, wired, initDone, stopCalled, bands, bandTickWidth, faults>>
  /\ IF checkDepeg(tick)
     THEN /\ stopped' = TRUE
          /\ notifications' = notifications \cup {"ALERT_DEPEG"}
          /\ UNCHANGED consecutiveErrors
          /\ IF Len(bands) = 0
             THEN UNCHANGED <<state, rebalanceLock, tasks>>
             ELSE /\ rebalanceLock' = TRUE
                  /\ state' = "WITHDRAWING"
                  /\ tasks' = [tasks EXCEPT
                       ![t] = ewStart([IdleTask EXCEPT !.op = "ew", !.tick = tick], "detached")]
     ELSE IF Len(bands) = 0
     THEN IF calculateBands(tick, RangeWidthPercent, FeeTier).ok
          THEN /\ rebalanceLock' = TRUE
               /\ state' = "MINTING"
               /\ tasks' = [tasks EXCEPT
                    ![t] = [IdleTask EXCEPT !.pc = "mi_bal", !.op = "mint", !.tick = tick]]
               /\ UNCHANGED <<stopped, notifications, consecutiveErrors>>
          ELSE handleError(t)
     ELSE IF isInSafeZone(bands, tick)
     THEN UNCHANGED <<state, rebalanceLock, stopped, notifications, tasks, consecutiveErrors>>
     ELSE IF getTriggerDirection(bands, tick) = "none"
     THEN UNCHANGED <<state, rebalanceLock, stopped, notifications, tasks, consecutiveErrors>>
     ELSE IF tooSoon
     THEN UNCHANGED <<state, rebalanceLock, stopped, notifications, tasks, consecutiveErrors>>
     ELSE IF stopped
     THEN UNCHANGED <<state, rebalanceLock, stopped, notifications, tasks, consecutiveErrors>>
     ELSE /\ UNCHANGED <<state, rebalanceLock, stopped, notifications, consecutiveErrors>>
          /\ tasks' = [tasks EXCEPT
               ![t] = [IdleTask EXCEPT !.pc = "rb_gas", !.op = "rebalance", !.tick = tick,
                                       !.dir = getTriggerDirection(bands, tick),
                                       !.log = <<Ev("start", Len(bands), bands[1].tickLower,
                                                    bands[Len(bands)].tickUpper,
                                                    getTriggerDirection(bands, tick))>>]]
  /\ UNCHANGED rpcVars

(* --------------------------- mintInitialBands -------------------------- *)
\* fragment: the engine variables a step without exception leaves alone
quiet == UNCHANGED <<consecutiveErrors, stopped, notifications, rebalanceLock>>

\* balanceOf of both tokens resolved, the first mint is sent
mintBalances(t) ==
  /\ tasks[t].pc = "mi_bal"
  /\ LET first == calculateBands(tasks[t].tick, RangeWidthPercent, FeeTier).bands[1]
     IN  \/ /\ \E b \in Balances :
                 tasks' = [tasks EXCEPT ![t].pc = "mi_mint", ![t].bal0 = b[1], ![t].bal1 = b[2],
                             ![t].log = Append(tasks[t].log,
                                Ev("mint", 0, first.tickLower, first.tickUpper, ""))]
            /\ quiet
            /\ NoFault
            /\ UNCHANGED state
         \/ handleFault(t)
  /\ UNCHANGED <<bands, bandTickWidth, lastRebalanceTime, initialValue, store, disk,
                 chainOwned, nextTokenId, now, boot, overlaps, wired, initDone, stopCalled>>
  /\ UNCHANGED rpcVars

\* one positionManager.mint of the loop resolved; after the seventh the ledger is
\* installed, the state persisted and the notification sent
mintStep(t) ==
  /\ tasks[t].pc = "mi_mint"
  /\ LET layout == calculateBands(tasks[t].tick, RangeWidthPercent, FeeTier)
         i == Len(tasks[t].mb) + 1
         cfg == layout.bands[i]
         nb == [index |-> i - 1, tokenId |-> nextTokenId,
                tickLower |-> cfg.tickLower, tickUpper |-> cfg.tickUpper]
         mb2 == Append(tasks[t].mb, nb)
         ledger == setBands(mb2, layout.bandTickWidth)
         upd == persistStateUpdate(ledger.bands, ledger.bandTickWidth, now * MS_PER_MINUTE)
     IN  \/ /\ nextTokenId <= MaxTokens
            /\ Mintable(cfg.tickLower, cfg.tickUpper)
            /\ chainOwned' = MintOnChain(cfg.tickLower, cfg.tickUpper)
            /\ nextTokenId' = nextTokenId + 1
            /\ IF i < BAND_COUNT
               THEN /\ tasks' = [tasks EXCEPT ![t].mb = mb2,
                                   ![t].log = Append(tasks[t].log,
                                      Ev("mint", 0, layout.bands[i + 1].tickLower,
                                         layout.bands[i + 1].tickUpper, ""))]
                    /\ NoFault
                    /\ UNCHANGED <<bands, bandTickWidth, lastRebalanceTime, consecutiveErrors,
                                   initialValue, store, disk, notifications>>
               ELSE /\ bands' = ledger.bands
                    /\ bandTickWidth' = ledger.bandTickWidth
                    /\ lastRebalanceTime' = now * MS_PER_MINUTE
                    /\ resetErrors
                    /\ initialValue' = estimatePortfolioValue(tasks[t].bal0, tasks[t].bal1,
                                                              tickToPrice(tasks[t].tick))
                    /\ store' = upd
                    /\ save(upd)
                    /\ notifications' = notifications \cup {"MINTED"}
                    /\ tasks' = [tasks EXCEPT ![t] =
                                   [Past(tasks[t], "mi_notify") EXCEPT
                                      !.log = Append(tasks[t].log, Ev("persist", 0, 0, 0, ""))]]
            /\ UNCHANGED <<state, stopped, rebalanceLock>>
         \/ /\ ~Mintable(cfg.tickLower, cfg.tickUpper)
            /\ handleError(t)
            /\ NoFault
            /\ UNCHANGED <<bands, bandTickWidth, lastRebalanceTime, initialValue, store, disk,
                           chainOwned, nextTokenId>>
         \/ /\ handleFault(t)
            /\ UNCHANGED <<bands, bandTickWidth, lastRebalanceTime, initialValue, store, disk,
                           chainOwned, nextTokenId>>
  /\ UNCHANGED <<now, boot, overlaps, wired, initDone, stopCalled>>
  /\ UNCHANGED rpcVars

\* the "bands minted" notification settled
mintNotified(t) ==
  /\ tasks[t].pc = "mi_notify"
  /\ \/ /\ state' = "MONITORING"
        /\ rebalanceLock' = FALSE
        /\ tasks' = [tasks EXCEPT ![t] = IdleTask]
        /\ NoFault
        /\ UNCHANGED <<consecutiveErrors, stopped, notifications>>
     \/ handleFault(t)
  /\ UNCHANGED <<bands, bandTickWidth, lastRebalanceTime, initialValue, store, disk,
                 chainOwned, nextTokenId, now, boot, overlaps, wired, initDone, stopCalled>>
  /\ UNCHANGED rpcVars

(* ------------------------- executeBandRebalance ------------------------ *)
GasReadings == [spike : BOOLEAN, costly : BOOLEAN, fail : BOOLEAN]

\* variant: a spike or an over-budget estimate skips the rebalance, in range or not
checkGasCostStrict(isOutOfRange, g) ==
  IF g.fail THEN TRUE
  ELSE IF g.spike THEN FALSE
  ELSE IF g.costly THEN FALSE
  ELSE TRUE

checkGasCost(isOutOfRange, g) ==
  IF g.fail THEN TRUE
  ELSE IF g.spike /\ ~isOutOfRange THEN FALSE
  ELSE IF g.costly /\ ~isOutOfRange THEN FALSE
  ELSE TRUE

\* variant: the rebalance time is stamped when the rebalance starts
rebalanceStartStamped(t) ==
  /\ tasks[t].pc = "rb_gas"
  /\ \E g \in GasReadings :
       IF checkGasCost(TRUE, g)
       THEN /\ rebalanceLock' = TRUE
            /\ state' = "EVALUATING"
            /\ tasks' = [tasks EXCEPT ![t].pc = "rb_preBal"]
       ELSE /\ tasks' = [tasks EXCEPT ![t] = IdleTask]
            /\ UNCHANGED <<rebalanceLock, state>>
  /\ lastRebalanceTime' = now * MS_PER_MINUTE
  /\ UNCHANGED <<bands, bandTickWidth, consecutiveErrors, stopped,
                 initialValue, store, disk, chainOwned, nextTokenId, now, boot, overlaps, wired,
                 initDone, stopCalled, notifications, faults>>
  /\ UNCHANGED rpcVars

\* checkGasCost(true) settled: take the lock, EVALUATING, read the balances
rebalanceStart(t) ==
  /\ tasks[t].pc = "rb_gas"
  /\ \E g \in GasReadings :
       IF checkGasCost(TRUE, g)
       THEN /\ rebalanceLock' = TRUE
            /\ state' = "EVALUATING"
            /\ tasks' = [tasks EXCEPT ![t].pc = "rb_preBal"]
       ELSE /\ tasks' = [tasks EXCEPT ![t] = IdleTask]
            /\ UNCHANGED <<rebalanceLock, state>>
  /\ UNCHANGED <<bands, bandTickWidth, lastRebalanceTime, consecutiveErrors, stopped,
                 initialValue, store, disk, chainOwned, nextTokenId, now, boot, overlaps, wired,
                 initDone, stopCalled, notifications, faults>>
  /\ UNCHANGED rpcVars

\* pre-rebalance balances read: WITHDRAWING, pick the band, ask for its position
rebalancePreValue(t) ==
  /\ tasks[t].pc = "rb_preBal"
  /\ \/ /\ Len(bands) > 0
        /\ \E b \in Balances :
             tasks' = [tasks EXCEPT ![t].pc = "rb_getPos",
                         ![t].preValue = estimatePortfolioValue(b[1], b[2], tickToPrice(tasks[t].tick)),
                         ![t].band = getBandToDissolve(bands, tasks[t].dir)]
        /\ state' = "WITHDRAWING"
        /\ quiet
        /\ NoFault
     \/ /\ Len(bands) = 0
        /\ handleError(t)
        /\ NoFault
     \/ handleFault(t)
  /\ UNCHANGED <<bands, bandTickWidth, lastRebalanceTime, initialValue, store, disk,
                 chainOwned, nextTokenId, now, boot, overlaps, wired, initDone, stopCalled>>
  /\ UNCHANGED rpcVars

RemoveTxHashes == <<"decreaseLiquidity", "collect", "burn">>

\* variant: the swap is prepared without the WITHDRAWN checkpoint
afterRemoveUncheckpointed(t, txHashes) ==
  /\ bands' = removeBand(bands, tasks[t].band.tokenId)
  /\ state' = "SWAPPING"
  /\ tasks' = [tasks EXCEPT ![t].pc = "rb_swapBal"]
  /\ quiet
  /\ NoFault
  /\ UNCHANGED <<store, disk>>

\* fragment: removeBand, checkpoint WITHDRAWN, SWAPPING, read the balances
afterRemove(t, txHashes) ==
  LET bs == removeBand(bands, tasks[t].band.tokenId)
      upd == persistCheckpointUpdate(bs, bandTickWidth, lastRebalanceTime, "WITHDRAWN", txHashes)
  IN  /\ bands' = bs
      /\ store' = upd
      /\ saveOrThrow(upd,
            /\ state' = "SWAPPING"
            /\ tasks' = [tasks EXCEPT ![t].pc = "rb_swapBal",
                           ![t].log = Append(tasks[t].log, Ev("ckpt", 0, 0, 0, "WITHDRAWN"))]
            /\ quiet,
            handleError(t))

\* getPosition of the band to dissolve resolved
rebalanceGotPosition(t) ==
  /\ tasks[t].pc = "rb_getPos"
  /\ LET i == OwnedIndex(tasks[t].band.tokenId)
     IN  \/ /\ i # 0
            /\ chainOwned[i].liq
            /\ tasks' = [tasks EXCEPT ![t].pc = "rb_remove",
                           ![t].log = Append(tasks[t].log,
                              Ev("remove", tasks[t].band.tokenId, tasks[t].band.tickLower,
                                 tasks[t].band.tickUpper, ""))]
            /\ quiet
            /\ NoFault
            /\ UNCHANGED <<state, bands, store, disk>>
         \/ /\ i # 0
            /\ ~chainOwned[i].liq
            /\ afterRemove(t, <<>>)
         \/ /\ i = 0
            /\ handleError(t)
            /\ NoFault
            /\ UNCHANGED <<bands, store, disk>>
         \/ /\ handleFault(t)
            /\ UNCHANGED <<bands, store, disk>>
  /\ UNCHANGED <<bandTickWidth, lastRebalanceTime, initialValue, chainOwned, nextTokenId,
                 now, boot, overlaps, wired, initDone, stopCalled>>
  /\ UNCHANGED rpcVars

\* removePosition (decrease, collect, burn) settled; decreaseLiquidity reverts when
\* the position no longer holds the liquidity that was read
rebalanceRemoved(t) ==
  /\ tasks[t].pc = "rb_remove"
  /\ \/ /\ Removable(tasks[t].band.tokenId)
        /\ chainOwned' = Burn(tasks[t].band.tokenId)
        /\ afterRemove(t, RemoveTxHashes)
     \/ /\ ~Removable(tasks[t].band.tokenId)
        /\ handleError(t)
        /\ NoFault
        /\ UNCHANGED <<bands, store, disk, chainOwned>>
     \/ /\ chainOwned' \in {chainOwned, Drain(tasks[t].band.tokenId)}
        /\ handleFault(t)
        /\ UNCHANGED <<bands, store, disk>>
  /\ UNCHANGED <<bandTickWidth, lastRebalanceTime, initialValue, nextTokenId,
                 now, boot, overlaps, wired, initDone, stopCalled>>
  /\ UNCHANGED rpcVars

\* fragment: checkpoint SWAPPED, MINTING, new band ticks, read the balances
afterSwap(t, txHashes) ==
  LET upd == persistCheckpointUpdate(bands, bandTickWidth, lastRebalanceTime, "SWAPPED", txHashes)
      nt == getNewBandTicks(bands, bandTickWidth, tasks[t].dir)
  IN  /\ store' = upd
      /\ saveOrThrow(upd,
            IF Len(bands) > 0
            THEN /\ state' = "MINTING"
                 /\ tasks' = [tasks EXCEPT ![t].pc = "rb_mintBal", ![t].bal0 = 0, ![t].bal1 = 0,
                                ![t].lo = nt.tickLower, ![t].hi = nt.tickUpper,
                                ![t].log = Append(tasks[t].log, Ev("ckpt", 0, 0, 0, "SWAPPED"))]
                 /\ quiet
            ELSE handleError(t),
            handleError(t))

\* balances after the withdrawal read: swap all of the freed token, or skip
rebalanceSwapDecision(t) ==
  /\ tasks[t].pc = "rb_swapBal"
  /\ \/ \E b \in Balances :
          IF tasks[t].dir = "lower" /\ b[1] > 0
          THEN /\ tasks' = [tasks EXCEPT ![t].pc = "rb_swap", ![t].bal0 = b[1],
                              ![t].log = Append(tasks[t].log, Ev("swap", 0, 0, 0, "0to1"))]
               /\ quiet
               /\ NoFault
               /\ UNCHANGED <<state, store, disk>>
          ELSE IF tasks[t].dir = "upper" /\ b[2] > 0
          THEN /\ tasks' = [tasks EXCEPT ![t].pc = "rb_swap", ![t].bal1 = b[2],
                              ![t].log = Append(tasks[t].log, Ev("swap", 0, 0, 0, "1to0"))]
               /\ quiet
               /\ NoFault
               /\ UNCHANGED <<state, store, disk>>
          ELSE afterSwap(t, <<>>)
     \/ /\ handleFault(t)
        /\ UNCHANGED <<store, disk>>
  /\ UNCHANGED <<bands, bandTickWidth, lastRebalanceTime, initialValue, chainOwned,
                 nextTokenId, now, boot, overlaps, wired, initDone, stopCalled>>
  /\ UNCHANGED rpcVars

\* swapExecutor.executeSwap settled
rebalanceSwapped(t) ==
  /\ tasks[t].pc = "rb_swap"
  /\ \/ afterSwap(t, <<"swap">>)
     \/ /\ handleFault(t)
        /\ UNCHANGED <<store, disk>>
  /\ UNCHANGED <<bands, bandTickWidth, lastRebalanceTime, initialValue, chainOwned,
                 nextTokenId, now, boot, overlaps, wired, initDone, stopCalled>>
  /\ UNCHANGED rpcVars

\* balances for the new band read: send the mint
rebalanceMintCall(t) ==
  /\ tasks[t].pc = "rb_mintBal"
  /\ \/ /\ \E b \in Balances :
             tasks' = [tasks EXCEPT ![t].pc = "rb_mint", ![t].bal0 = b[1], ![t].bal1 = b[2],
                         ![t].log = Append(tasks[t].log,
                            Ev("mint", 0, tasks[t].lo, tasks[t].hi, ""))]
        /\ quiet
        /\ NoFault
        /\ UNCHANGED state
     \/ handleFault(t)
  /\ UNCHANGED <<bands, bandTickWidth, lastRebalanceTime, initialValue, store, disk,
                 chainOwned, nextTokenId, now, boot, overlaps, wired, initDone, stopCalled>>
  /\ UNCHANGED rpcVars

\* positionManager.mint settled: addBand, lastRebalanceTime, counter reset, loss checks,
\* then either a loss notification, emergencyWithdraw, or the terminal persist
rebalanceMinted(t) ==
  /\ tasks[t].pc = "rb_mint"
  /\ LET bs == addBand(bands, [tokenId |-> nextTokenId, tickLower |-> tasks[t].lo,
                               tickUpper |-> tasks[t].hi],
                       IF tasks[t].dir = "lower" THEN "start" ELSE "end")
         lrt == now * MS_PER_MINUTE
         postValue == estimatePortfolioValue(tasks[t].bal0, tasks[t].bal1, tickToPrice(tasks[t].tick))
         preValue == tasks[t].preValue
         upd == persistStateUpdate(bs, bandTickWidth, lrt)
     IN  \/ /\ nextTokenId <= MaxTokens
            /\ Mintable(tasks[t].lo, tasks[t].hi)
            /\ chainOwned' = MintOnChain(tasks[t].lo, tasks[t].hi)
            /\ nextTokenId' = nextTokenId + 1
            /\ bands' = bs
            /\ lastRebalanceTime' = lrt
            /\ resetErrors
            /\ IF preValue > 0 /\ postValue > 0 /\ checkRebalanceLoss(preValue, postValue)
               THEN /\ stopped' = TRUE
                    /\ notifications' = notifications \cup {"ALERT_REBALANCE_LOSS"}
                    /\ tasks' = [tasks EXCEPT ![t] = Past(tasks[t], "rb_lossNotify")]
                    /\ NoFault
                    /\ UNCHANGED <<state, rebalanceLock, store, disk>>
               ELSE IF initialValue # 0 /\ checkPortfolioLoss(postValue, initialValue, MaxTotalLossPercent)
               THEN /\ stopped' = TRUE
                    /\ rebalanceLock' = TRUE
                    /\ state' = "WITHDRAWING"
                    /\ tasks' = [tasks EXCEPT ![t] =
                                   [Past(tasks[t], "ew_getPos") EXCEPT
                                      !.ewBands = bs, !.ewI = 1, !.ret = "rebalance"]]
                    /\ NoFault
                    /\ UNCHANGED <<notifications, store, disk>>
               ELSE /\ store' = upd
                    /\ save(upd)
                    /\ notifications' = notifications \cup {"REBALANCED"}
                    /\ tasks' = [tasks EXCEPT ![t] =
                                   [Past(tasks[t], "rb_notify") EXCEPT
                                      !.log = Append(tasks[t].log, Ev("persist", 0, 0, 0, ""))]]
                    /\ UNCHANGED <<state, rebalanceLock, stopped>>
         \/ /\ ~Mintable(tasks[t].lo, tasks[t].hi)
            /\ handleError(t)
            /\ NoFault
            /\ UNCHANGED <<bands, lastRebalanceTime, store, disk, chainOwned, nextTokenId>>
         \/ /\ handleFault(t)
            /\ UNCHANGED <<bands, lastRebalanceTime, store, disk, chainOwned, nextTokenId>>
  /\ UNCHANGED <<bandTickWidth, initialValue, now, boot, overlaps, wired, initDone, stopCalled>>
  /\ UNCHANGED rpcVars

\* the "rebalance loss too high" notification settled
rebalanceLossNotified(t) ==
  /\ tasks[t].pc = "rb_lossNotify"
  /\ \/ /\ state' = "STOPPED"
        /\ rebalanceLock' = FALSE
        /\ tasks' = [tasks EXCEPT ![t] = IdleTask]
        /\ NoFault
        /\ UNCHANGED <<consecutiveErrors, stopped, notifications>>
     \/ handleFault(t)
  /\ UNCHANGED <<bands, bandTickWidth, lastRebalanceTime, initialValue, store, disk,
                 chainOwned, nextTokenId, now, boot, overlaps, wired, initDone, stopCalled>>
  /\ UNCHANGED rpcVars

\* the "portfolio loss limit" notification settled
rebalancePortfolioNotified(t) ==
  /\ tasks[t].pc = "rb_portNotify"
  /\ \/ /\ rebalanceLock' = FALSE
        /\ tasks' = [tasks EXCEPT ![t] = IdleTask]
        /\ NoFault
        /\ UNCHANGED <<state, consecutiveErrors, stopped, notifications>>
     \/ handleFault(t)
  /\ UNCHANGED <<bands, bandTickWidth, lastRebalanceTime, initialValue, store, disk,
                 chainOwned, nextTokenId, now, boot, overlaps, wired, initDone, stopCalled>>
  /\ UNCHANGED rpcVars

\* the "band rebalance completed" notification settled
rebalanceNotified(t) ==
  /\ tasks[t].pc = "rb_notify"
  /\ \/ /\ state' = "MONITORING"
        /\ rebalanceLock' = FALSE
        /\ tasks' = [tasks EXCEPT ![t] = IdleTask]
        /\ NoFault
        /\ UNCHANGED <<consecutiveErrors, stopped, notifications>>
     \/ handleFault(t)
  /\ UNCHANGED <<bands, bandTickWidth, lastRebalanceTime, initialValue, store, disk,
                 chainOwned, nextTokenId, now, boot, overlaps, wired, initDone, stopCalled>>
  /\ UNCHANGED rpcVars

(* --------------------------- emergencyWithdraw ------------------------- *)
\* fragment: the loop moves to the next band, or ends: history log, EMERGENCY notification
ewNext(t) ==
  IF tasks[t].ewI < Len(tasks[t].ewBands)
  THEN /\ tasks' = [tasks EXCEPT ![t].pc = "ew_getPos", ![t].ewI = tasks[t].ewI + 1]
       /\ UNCHANGED notifications
  ELSE /\ tasks' = [tasks EXCEPT ![t] = [Past(tasks[t], "ew_notify") EXCEPT !.ret = tasks[t].ret]]
       /\ notifications' = notifications \cup {"EMERGENCY"}

\* fragment: catch (err) { await notifier.notify('CRITICAL ...').catch(() => {}) }
ewCatch(t) ==
  /\ tasks' = [tasks EXCEPT ![t] = [Past(tasks[t], "ew_crit") EXCEPT !.ret = tasks[t].ret]]
  /\ notifications' = notifications \cup {"CRITICAL"}

\* fragment: finally { lock = false }; setState('STOPPED'); back in the caller
ewFinish(t) ==
  /\ rebalanceLock' = FALSE
  /\ state' = "STOPPED"
  /\ IF tasks[t].ret = "rebalance"
     THEN /\ notifications' = notifications \cup {"ALERT_PORTFOLIO_LOSS"}
          /\ tasks' = [tasks EXCEPT ![t] = Past(tasks[t], "rb_portNotify")]
     ELSE /\ tasks' = [tasks EXCEPT ![t] = IdleTask]
          /\ UNCHANGED notifications

\* getPosition of the current band of the loop settled
emergencyGotPosition(t) ==
  /\ tasks[t].pc = "ew_getPos"
  /\ LET id == tasks[t].ewBands[tasks[t].ewI].tokenId
         i == OwnedIndex(id)
     IN  \/ /\ i # 0
            /\ chainOwned[i].liq
            /\ tasks' = [tasks EXCEPT ![t].pc = "ew_remove",
                           ![t].log = Append(tasks[t].log, Ev("remove", id, 0, 0, ""))]
            /\ NoFault
            /\ UNCHANGED notifications
         \/ /\ i # 0
            /\ ~chainOwned[i].liq
            /\ ewNext(t)
            /\ NoFault
         \/ /\ i = 0
            /\ ewCatch(t)
            /\ NoFault
         \/ /\ ewCatch(t)
            /\ Fault
  /\ UNCHANGED <<state, bands, bandTickWidth, lastRebalanceTime, consecutiveErrors,
                 rebalanceLock, stopped, initialValue, store, disk, chainOwned,
                 nextTokenId, now, boot, overlaps, wired, initDone, stopCalled>>
  /\ UNCHANGED rpcVars

\* removePosition of the current band of the loop settled
emergencyRemoved(t) ==
  /\ tasks[t].pc = "ew_remove"
  /\ LET id == tasks[t].ewBands[tasks[t].ewI].tokenId
     IN  \/ /\ Removable(id)
            /\ chainOwned' = Burn(id)
            /\ ewNext(t)
            /\ NoFault
         \/ /\ ~Removable(id)
            /\ UNCHANGED chainOwned
            /\ ewCatch(t)
            /\ NoFault
         \/ /\ chainOwned' \in {chainOwned, Drain(id)}
            /\ ewCatch(t)
            /\ Fault
  /\ UNCHANGED <<state, bands, bandTickWidth, lastRebalanceTime, consecutiveErrors,
                 rebalanceLock, stopped, initialValue, store, disk,
                 nextTokenId, now, boot, overlaps, wired, initDone, stopCalled>>
  /\ UNCHANGED rpcVars

\* the EMERGENCY notification settled: clear the ledger and persist, or catch
emergencyNotified(t) ==
  /\ tasks[t].pc = "ew_notify"
  /\ \/ LET upd == persistStateUpdate(<<>>, 0, lastRebalanceTime)
        IN  /\ bands' = <<>>
            /\ bandTickWidth' = 0
            /\ store' = upd
            /\ save(upd)
            /\ ewFinish(t)
     \/ /\ ewCatch(t)
        /\ Fault
        /\ UNCHANGED <<state, bands, bandTickWidth, rebalanceLock, store, disk>>
  /\ UNCHANGED <<lastRebalanceTime, consecutiveErrors, stopped, initialValue, chainOwned,
                 nextTokenId, now, boot, overlaps, wired, initDone, stopCalled>>
  /\ UNCHANGED rpcVars

\* the CRITICAL notification settled (its failure is swallowed)
emergencyFailed(t) ==
  /\ tasks[t].pc = "ew_crit"
  /\ ewFinish(t)
  /\ UNCHANGED <<bands, bandTickWidth, lastRebalanceTime, consecutiveErrors, stopped,
                 initialValue, store, disk, chainOwned, nextTokenId, now, boot, overlaps, wired,
                 initDone, stopCalled, faults>>
  /\ UNCHANGED rpcVars

(* ---------------------------- specification ---------------------------- *)
Next ==
  \/ Restart
  \/ ClockTick
  \/ initialize
  \/ stop
  \/ \E t \in TaskIds, tick \in Ticks : onPriceUpdate(t, tick)
  \/ \E t \in TaskIds : mintBalances(t)
  \/ \E t \in TaskIds : mintStep(t)
  \/ \E t \in TaskIds : mintNotified(t)
  \/ \E t \in TaskIds : rebalanceStart(t)
  \/ \E t \in TaskIds : rebalancePreValue(t)
  \/ \E t \in TaskIds : rebalanceGotPosition(t)
  \/ \E t \in TaskIds : rebalanceRemoved(t)
  \/ \E t \in TaskIds : rebalanceSwapDecision(t)
  \/ \E t \in TaskIds : rebalanceSwapped(t)
  \/ \E t \in TaskIds : rebalanceMintCall(t)
  \/ \E t \in TaskIds : rebalanceMinted(t)
  \/ \E t \in TaskIds : rebalanceLossNotified(t)
  \/ \E t \in TaskIds : rebalancePortfolioNotified(t)
  \/ \E t \in TaskIds : rebalanceNotified(t)
  \/ \E t \in TaskIds : emergencyGotPosition(t)
  \/ \E t \in TaskIds : emergencyRemoved(t)
  \/ \E t \in TaskIds : emergencyNotified(t)
  \/ \E t \in TaskIds : emergencyFailed(t)

Spec == Init /\ [][Next]_vars

TypeOK ==
  /\ state \in {"IDLE", "MONITORING", "EVALUATING", "WITHDRAWING", "SWAPPING", "MINTING",
                "ERROR", "STOPPED"}
  /\ consecutiveErrors \in Nat
  /\ rebalanceLock \in BOOLEAN

(* ------------------------------- claims -------------------------------- *)
AtRest == \A t \in TaskIds : ~Busy(t)

\* the ledger shape the layout promises: 7 bands, contiguous, each `width` wide
WellFormed(bs, width) ==
  /\ Len(bs) = BAND_COUNT
  /\ \A i \in 1..(Len(bs) - 1) : bs[i].tickUpper = bs[i + 1].tickLower
  /\ \A i \in 1..Len(bs) : bs[i].tickUpper - bs[i].tickLower = width

\* a step in which invocation t returns from a mint or a rebalance without its
\* catch block having run
Succeeds(t) ==
  /\ boot' = boot
  /\ tasks[t].pc \in {"mi_notify", "rb_notify"}
  /\ tasks'[t].pc = "idle"
  /\ consecutiveErrors' = consecutiveErrors
  /\ state' = "MONITORING"

\* C1: whenever an onPriceUpdate call completes successfully and leaves the engine
\* at rest with a non-empty ledger, the ledger holds exactly 7 contiguous bands,
\* each of width bandTickWidth.
C1_LedgerSevenContiguous ==
  [][(\E t \in TaskIds : Succeeds(t)) /\ AtRest' /\ bands' # <<>>
       => WellFormed(bands', bandTickWidth')]_vars

\* invocation t has issued a chain write (remove, swap or mint) and not yet returned
HasIssued(t) ==
  \E k \in 1..Len(tasks[t].log) : tasks[t].log[k].e \in {"remove", "swap", "mint"}

\* C2: onPriceUpdate is non-reentrant: no two invocations of the same engine both
\* have chain writes issued and not yet returned, i.e. at most one mint / rebalance /
\* emergency-withdraw sequence is in flight.
C2_NonReentrant ==
  \A t, u \in TaskIds : t # u => ~(HasIssued(t) /\ HasIssued(u))

\* the events of one rebalance are in order: a swap only after the WITHDRAWN
\* checkpoint, the SWAPPED checkpoint only after the WITHDRAWN one, a mint only after
\* the SWAPPED checkpoint, the removal of the dissolved band before any checkpoint,
\* the terminal persist only after the mint
InOrder(log) ==
  \A k \in 1..Len(log) :
    LET Earlier(e, x) == \E j \in 1..(k - 1) : log[j].e = e /\ log[j].x = x
    IN  /\ log[k].e = "swap" => Earlier("ckpt", "WITHDRAWN")
        /\ (log[k].e = "ckpt" /\ log[k].x = "SWAPPED") => Earlier("ckpt", "WITHDRAWN")
        /\ log[k].e = "mint" => Earlier("ckpt", "SWAPPED")
        /\ log[k].e = "persist" => Earlier("mint", "")
        /\ (log[k].e = "remove" /\ ~Earlier("mint", ""))
             => \A j \in 1..(k - 1) : log[j].e # "ckpt"

\* C3: within one band rebalance the side effects occur in the order removePosition,
\* checkpoint WITHDRAWN, swap, checkpoint SWAPPED, mint, terminal persist: no swap is
\* issued before the WITHDRAWN checkpoint is written, no mint before the SWAPPED one.
C3_RebalanceOrder ==
  \A t \in TaskIds : tasks[t].op = "rebalance" => InOrder(tasks[t].log)

\* C3, witness: a rebalance that removed, checkpointed, swapped, checkpointed, minted
\* and persisted
C3_Witness ==
  \E t \in TaskIds :
    /\ tasks[t].op = "rebalance"
    /\ Len(tasks[t].log) = 7
    /\ [k \in 1..7 |-> tasks[t].log[k].e]
         = <<"start", "remove", "ckpt", "swap", "ckpt", "mint", "persist">>

\* a step in which the checkpoint write of invocation t throws: the store holds the
\* checkpoint, the file does not
CheckpointFails(t, stage) ==
  /\ boot' = boot
  /\ tasks[t].op = "rebalance"
  /\ tasks'[t] # tasks[t]
  /\ store' # store
  /\ store'.rebalanceStage = stage
  /\ disk' = disk
  /\ disk' # store'

NoEvent(log, e) == \A k \in 1..Len(log) : log[k].e # e

\* C4: when the fail-fast write of the WITHDRAWN checkpoint fails, the rebalance has
\* issued no swap and no mint and issues none; when the write of the SWAPPED
\* checkpoint fails, it has issued no mint and issues none; either way the rebalance
\* ends at once as a failure (handled error, invocation over).
C4_CheckpointFailFast ==
  [][\A t \in TaskIds :
       /\ CheckpointFails(t, "WITHDRAWN")
            => /\ NoEvent(tasks[t].log, "swap") /\ NoEvent(tasks[t].log, "mint")
               /\ tasks'[t] = IdleTask
               /\ consecutiveErrors' = consecutiveErrors + 1
               /\ chainOwned' \in {chainOwned, Burn(tasks[t].band.tokenId)}
       /\ CheckpointFails(t, "SWAPPED")
            => /\ NoEvent(tasks[t].log, "mint")
               /\ tasks'[t] = IdleTask
               /\ consecutiveErrors' = consecutiveErrors + 1
               /\ chainOwned' = chainOwned]_vars

\* C4, witness: the SWAPPED checkpoint could not be written after the WITHDRAWN one
\* was, and the rebalance ended as a failure
C4_Witness ==
  /\ AtRest
  /\ store.rebalanceStage = "SWAPPED"
  /\ disk.rebalanceStage = "WITHDRAWN"
  /\ consecutiveErrors = 1
  /\ state = "MONITORING"

\* a step in which initialize() returns normally after finding a persisted stage
InitializeRecovers ==
  /\ ~initDone
  /\ initDone'
  /\ wired'
  /\ store.rebalanceStage # "none"

\* C5: when initialize() finds rebalanceStage persisted and returns, the in-memory
\* ledger is empty, the persisted rebalanceStage, pendingTxHashes, bands and
\* bandTickWidth are cleared, the RECOVERY notification naming the stage has been
\* sent and the state is MONITORING.
C5_RecoveryLeavesEmptyLedger ==
  [][InitializeRecovers
       => /\ bands' = <<>>
          /\ store'.rebalanceStage = "none" /\ store'.pendingTxHashes = <<>>
          /\ store'.bands = <<>> /\ store'.bandTickWidth = Undef
          /\ RecoveryNote(store.rebalanceStage) \in notifications'
          /\ state' = "MONITORING"]_vars

\* the depeg check has fired in this process (its alert is sent when it fires)
DepegFired == "ALERT_DEPEG" \in notifications

\* C6: once the depeg check has fired on a price tick, no later price tick is acted
\* on: no invocation starts a mint, a rebalance or anything else that outlives its
\* synchronous part, and the state, once STOPPED, was reached before the next tick.
C6_DepegStops ==
  [][(boot' = boot /\ DepegFired)
       => \A t \in TaskIds : tasks[t].pc = "idle" => tasks'[t].pc = "idle"]_vars

\* C7: ERROR and STOPPED are terminal within a process: STOPPED stays STOPPED, and
\* ERROR is left only for STOPPED, also when stop() is called while a mint or a
\* rebalance is in flight.
C7_TerminalStates ==
  [][boot' = boot
       => /\ state = "STOPPED" => state' = "STOPPED"
          /\ state = "ERROR" => state' \in {"ERROR", "STOPPED"}]_vars

\* a step in which invocation t leaves mintInitialBands or executeBandRebalance and
\* does so neither by one of their return statements nor with the process
Returns(t) ==
  /\ faults' = faults
  /\ tasks[t].pc \in {"rb_gas", "mi_notify", "rb_notify", "rb_lossNotify", "rb_portNotify"}

Caught(t) ==
  /\ boot' = boot
  /\ tasks[t].op \in {"mint", "rebalance"}
  /\ Busy(t)
  /\ tasks'[t].pc = "idle"
  /\ ~Returns(t)

MintSucceeds ==
  /\ boot' = boot
  /\ nextTokenId' = nextTokenId + 1
  /\ bands' # bands

\* C9: a successful mint or rebalance resets the consecutive-error counter to 0,
\* whatever it was (two failures followed by a success leave it at 0); the counter
\* otherwise grows by one per failure and ERROR is entered only at 3, so two further
\* failures after a success do not bring the engine to ERROR.
C9_SuccessResetsCounter ==
  [][/\ MintSucceeds => consecutiveErrors' = 0
     /\ consecutiveErrors' > consecutiveErrors => consecutiveErrors' = consecutiveErrors + 1
     /\ (state' = "ERROR" /\ state # "ERROR")
          => consecutiveErrors' >= MAX_CONSECUTIVE_ERRORS]_vars

\* C9, witness: the initial mint failed twice before any position existed, the third
\* attempt minted all 7 bands, and the counter is back at 0
C9_Witness ==
  /\ boot = 1
  /\ faults = 2
  /\ disk = store
  /\ Len(bands) = BAND_COUNT
  /\ nextTokenId = BAND_COUNT + 1
  /\ consecutiveErrors = 0
  /\ state = "MONITORING"
  /\ AtRest

\* C10: a rejecting notify() never fails a state transition: when the notification
\* of an initial mint, a rebalance, a loss stop or an emergency withdraw settles, the
\* error counter is untouched and the engine goes where it goes when the
\* notification succeeds (MONITORING after a mint or rebalance, STOPPED after a
\* loss stop, an emptied ledger after an emergency withdraw).
C10_NotifierNeverFails ==
  [][\A t \in TaskIds :
       (boot' = boot /\ tasks'[t] # tasks[t]
          /\ tasks[t].pc \in {"mi_notify", "rb_notify", "rb_lossNotify", "rb_portNotify", "ew_notify"})
         => /\ consecutiveErrors' = consecutiveErrors
            /\ tasks[t].pc \in {"mi_notify", "rb_notify"} => state' = "MONITORING"
            /\ tasks[t].pc = "rb_lossNotify" => state' = "STOPPED"
            /\ tasks[t].pc = "rb_portNotify" => state' = state
            /\ tasks[t].pc = "ew_notify" => bands' = <<>>]_vars

\* C11: a persisted checkpoint means a rebalance is mid-flight: whenever no operation
\* is in flight and the state is MONITORING, STOPPED or ERROR, the state file holds no
\* rebalanceStage.
C11_NoCheckpointAtRest ==
  (AtRest /\ state \in {"MONITORING", "STOPPED", "ERROR"}) => disk.rebalanceStage = "none"

\* the tokenIds of a persisted bands field
PersistedIds(bs) == {bs[i].tokenId : i \in 1..Len(bs)}

\* a step in which invocation t writes a checkpoint of the given stage to the state file
WritesCheckpoint(t, stage) ==
  /\ boot' = boot
  /\ tasks[t].op = "rebalance"
  /\ tasks'[t] # tasks[t]
  /\ disk' # disk
  /\ disk'.rebalanceStage = stage

\* C12: a persisted rebalanceStage comes with the ledger as it was right after the
\* stage's write: the bands written with WITHDRAWN are the ledger without the
\* dissolved band, the bands written with SWAPPED are the ledger, and the ledger does
\* not change between the two writes of a rebalance, so that both persist the same
\* bands.
C12_CheckpointBands ==
  [][\A t \in TaskIds :
       /\ WritesCheckpoint(t, "WITHDRAWN")
            => /\ disk'.bands = BandStates(bands')
               /\ tasks[t].band.tokenId \notin PersistedIds(disk'.bands)
       /\ WritesCheckpoint(t, "SWAPPED") => disk'.bands = BandStates(bands')
       /\ (boot' = boot /\ tasks[t].pc \in {"rb_swapBal", "rb_swap"}) => bands' = bands]_vars

\* the events of kind e in a log
EventsOf(log, e) == SelectSeq(log, LAMBDA ev : ev.e = e)

\* a step in which invocation t returns from a rebalance that ran through to its last
\* statement: no exception was caught, no loss stop was taken
Completes(t) ==
  /\ boot' = boot
  /\ tasks[t].op = "rebalance"
  /\ tasks[t].pc = "rb_notify"
  /\ tasks'[t].pc = "idle"
  /\ consecutiveErrors' = consecutiveErrors

\* what the claim expects of the log of a rebalance that started from 7 bands
OneRemoveSwapMint(log, width) ==
  LET first == log[1]
      removes == EventsOf(log, "remove")
      swaps == EventsOf(log, "swap")
      mints == EventsOf(log, "mint")
  IN  /\ Len(removes) = 1
      /\ Len(swaps) = 1
      /\ Len(mints) = 1
      /\ mints[1].tickUpper - mints[1].tickLower = width
      /\ first.x = "lower"
           => /\ removes[1].tickUpper = first.tickUpper
              /\ swaps[1].x = "0to1"
              /\ mints[1].tickUpper = first.tickLower
      /\ first.x = "upper"
           => /\ removes[1].tickLower = first.tickLower
              /\ swaps[1].x = "1to0"
              /\ mints[1].tickLower = first.tickUpper

\* C13: a successful rebalance that started from a 7-band ledger has issued exactly
\* one removePosition (of the highest band for a lower trigger, of the lowest for an
\* upper trigger), exactly one swap of the freed token (token0 to token1 for lower,
\* token1 to token0 for upper; the amount is the balance just read) and exactly one
\* mint of a band of width bandTickWidth adjacent to the drift-side end of the old
\* ledger; afterwards the ledger has 7 bands and the state is MONITORING.
C13_OneRemoveOneSwapOneMint ==
  [][\A t \in TaskIds :
       (Completes(t) /\ tasks[t].log[1].tokenId = BAND_COUNT)
         => /\ OneRemoveSwapMint(tasks[t].log, bandTickWidth)
            /\ Len(bands') = BAND_COUNT
            /\ state' = "MONITORING"]_vars

\* the tick deviates from the expected price ratio by more than the depeg threshold
Depegged(tick) ==
  Abs(tickToPrice(tick) - ExpectedPriceRatio) * 100 > DepegThresholdPercent * ExpectedPriceRatio

\* the band containing the tick has index 2, 3 or 4 of 7
SafeTick(tick) ==
  /\ Len(bands) = BAND_COUNT
  /\ getBandIndexForTick(bands, tick) \in {2, 3, 4}

\* the step issues no chain call, writes nothing to the store or the file and leaves
\* ledger, state, lastRebalanceTime and error counter as they are
NoEffect ==
  /\ tasks' = tasks
  /\ UNCHANGED <<bands, bandTickWidth, state, lastRebalanceTime, consecutiveErrors,
                 rebalanceLock, store, disk, chainOwned, nextTokenId>>

\* C14, as claimed: a price tick whose containing band is in the safe zone (index 2, 3
\* or 4 of 7) causes no removePosition, no swap, no mint and no persistence write and
\* leaves ledger, state, lastRebalanceTime and error counter unchanged.
C14_SafeZoneNoEffect ==
  [][\A t \in TaskIds, tick \in Ticks :
       (onPriceUpdate(t, tick) /\ SafeTick(tick)) => NoEffect]_vars

\* C14, amended: a safe-zone price tick on which the depeg check does not fire causes
\* no removePosition, no swap, no mint and no persistence write and leaves ledger,
\* state, lastRebalanceTime, error counter and emergency stop unchanged.
C14_SafeZoneNoEffectUnlessDepeg ==
  [][\A t \in TaskIds, tick \in Ticks :
       (onPriceUpdate(t, tick) /\ SafeTick(tick) /\ ~Depegged(tick))
         => NoEffect /\ UNCHANGED <<stopped, notifications>>]_vars

\* C14, witness: while the first update after the initial mint was still awaiting
\* its gas check, a second update was delivered and started nothing, wrote nothing
\* and stopped nothing: with 7 bands that is a safe-zone tick without depeg
C14_Witness ==
  /\ overlaps = 1
  /\ state = "MONITORING"
  /\ ~stopped
  /\ \E tick \in Ticks : SafeTick(tick) /\ ~Depegged(tick)
  /\ tasks[1].pc = "rb_gas"
  /\ \A t \in TaskIds \ {1} : ~Busy(t)
  /\ nextTokenId = BAND_COUNT + 1
  /\ Len(chainOwned) = BAND_COUNT
  /\ consecutiveErrors = 0
  /\ disk = store
  /\ disk.rebalanceStage = "none"

\* a step in which a mint is confirmed on chain
MintConfirmed ==
  /\ nextTokenId' = nextTokenId + 1
  /\ Len(chainOwned') = Len(chainOwned) + 1

\* a step in which initialize() restores the ledger and its time from the state file
Restores ==
  /\ ~initDone
  /\ initDone'
  /\ Len(store.bands) > 0

\* C15: within a process lastRebalanceTime never decreases, and an operation writes it
\* only in the step in which its mint (the last one of the initial layout) is
\* confirmed: a rebalance that is skipped by a gate or fails at removal, checkpoint,
\* swap or mint leaves it unchanged.  The only other write is initialize() restoring
\* the persisted value.
C15_RebalanceTimeAfterMint ==
  [][boot' = boot
       => /\ lastRebalanceTime' >= lastRebalanceTime
          /\ lastRebalanceTime' # lastRebalanceTime
               => \/ MintConfirmed /\ lastRebalanceTime' = now * MS_PER_MINUTE
                  \/ Restores /\ lastRebalanceTime' = store.lastRebalanceTime]_vars

\* C15, witness: a rebalance failed after its removal, checkpoints and swap, one
\* minute after the initial mint, and lastRebalanceTime still is the time of the
\* initial mint
C15_Witness ==
  /\ AtRest
  /\ boot = 1
  /\ now = StartTime + 1
  /\ lastRebalanceTime = StartTime * MS_PER_MINUTE
  /\ disk.rebalanceStage = "SWAPPED"
  /\ consecutiveErrors = 1
  /\ state = "MONITORING"

\* the tick lies in a trigger zone of the ledger: in one of the two outermost bands on
\* either side, or outside all bands
TriggerTick(tick) ==
  /\ Len(bands) > 0
  /\ ~isInSafeZone(bands, tick)
  /\ getTriggerDirection(bands, tick) \in {"lower", "upper"}

\* less than the minimum interval has elapsed since lastRebalanceTime, or the
\* emergency stop flag is set
GateClosed ==
  \/ now * MS_PER_MINUTE - lastRebalanceTime < MinRebalanceIntervalMinutes * MS_PER_MINUTE
  \/ stopped

\* C16, as claimed: while the interval gate is closed or the emergency stop is set, a
\* trigger-zone price tick is skipped: no removePosition, swap or mint is issued,
\* ledger and persisted state are unchanged, the error counter is not incremented and
\* the state remains MONITORING.
C16_GateSkips ==
  [][\A t \in TaskIds, tick \in Ticks :
       (onPriceUpdate(t, tick) /\ TriggerTick(tick) /\ GateClosed)
         => NoEffect /\ state' = "MONITORING"]_vars

\* C16, amended: while the interval gate is closed or the emergency stop is set, a
\* trigger-zone price tick on which the depeg check does not fire is skipped: no
\* removePosition, swap or mint is issued, ledger and persisted state are unchanged,
\* the error counter is not incremented and the state remains MONITORING.
C16_GateSkipsUnlessDepeg ==
  [][\A t \in TaskIds, tick \in Ticks :
       (onPriceUpdate(t, tick) /\ TriggerTick(tick) /\ GateClosed /\ ~Depegged(tick))
         => NoEffect /\ state' = "MONITORING" /\ UNCHANGED <<stopped, notifications>>]_vars

\* C16, witness: the engine monitors the 7 bands it has just minted, the minimum
\* interval has not elapsed and a trigger-zone tick without depeg can be delivered
C16_Witness ==
  /\ wired
  /\ AtRest
  /\ state = "MONITORING"
  /\ Len(bands) = BAND_COUNT
  /\ ~stopped
  /\ now * MS_PER_MINUTE = lastRebalanceTime
  /\ \E tick \in Ticks : TriggerTick(tick) /\ ~Depegged(tick)

\* a step in which the gas check of invocation t settles
GasCheckSettles(t) ==
  /\ boot' = boot
  /\ tasks[t].pc = "rb_gas"
  /\ tasks'[t] # tasks[t]

LossDetected(t) ==
  /\ boot' = boot
  /\ tasks[t].pc = "rb_mint"
  /\ tasks'[t].pc = "rb_lossNotify"

\* a step in which the loss stop of invocation t finishes
LossStopEnds(t) ==
  /\ boot' = boot
  /\ tasks[t].pc = "rb_lossNotify"
  /\ tasks'[t] # tasks[t]

\* C18: a completed rebalance that lost more than 2 % of a positive pre-value makes
\* the engine notify and go to STOPPED without withdrawing: the ledger keeps its
\* bands and no position is removed.
C18_RebalanceLossStops ==
  [][\A t \in TaskIds :
       /\ LossDetected(t)
            => /\ tasks[t].preValue > 0
               /\ "ALERT_REBALANCE_LOSS" \in notifications'
               /\ stopped'
               /\ bands' # <<>>
       /\ LossStopEnds(t)
            => /\ state' = "STOPPED"
               /\ bands' = bands
               /\ chainOwned' = chainOwned]_vars


\* a step in which invocation t, its mint confirmed, finds the cumulative loss above
\* maxTotalLossPercent and enters emergencyWithdraw
PortfolioLossDetected(t) ==
  /\ boot' = boot
  /\ tasks[t].pc = "rb_mint"
  /\ tasks'[t].pc = "ew_getPos"

\* a step in which the emergencyWithdraw called by the rebalance of invocation t returns
WithdrawReturns(t) ==
  /\ boot' = boot
  /\ tasks[t].pc \in {"ew_getPos", "ew_remove", "ew_notify", "ew_crit"}
  /\ tasks'[t].pc = "rb_portNotify"

\* a step in which the portfolio-loss stop of invocation t finishes
PortfolioStopEnds(t) ==
  /\ boot' = boot
  /\ tasks[t].pc = "rb_portNotify"
  /\ tasks'[t] # tasks[t]

\* no band of the list is left on chain with liquidity
AllWithdrawn(bs) ==
  \A i \in 1..Len(bs) : ~Removable(bs[i].tokenId)

\* C19: when after a completed rebalance the cumulative loss against the initial
\* portfolio value exceeds maxTotalLossPercent, the engine runs emergencyWithdraw,
\* which removes every band that still has liquidity and empties the ledger, sends a
\* notification and ends in STOPPED.
C19_PortfolioLossWithdraws ==
  [][\A t \in TaskIds :
       /\ PortfolioLossDetected(t)
            => /\ initialValue # 0
               /\ state' = "WITHDRAWING"
               /\ stopped'
       /\ WithdrawReturns(t)
            => /\ AllWithdrawn(bands)
               /\ bands' = <<>>
               /\ "ALERT_PORTFOLIO_LOSS" \in notifications'
               /\ state' = "STOPPED"
       /\ PortfolioStopEnds(t)
            => state' = "STOPPED"]_vars


\* a step in which the loop of the emergency withdraw of invocation t is left for the
\* catch block
WithdrawLoopFails(t) ==
  /\ boot' = boot
  /\ tasks[t].pc \in {"ew_getPos", "ew_remove"}
  /\ tasks'[t].pc = "ew_crit"

\* C20: when reading or removing one band fails during emergency withdraw, the loop
\* goes on with the remaining bands, so that the loop is left only after the last
\* band of the ledger was attempted; a CRITICAL notification is emitted and the
\* engine goes to STOPPED regardless.
C20_WithdrawContinuesAfterFailure ==
  [][\A t \in TaskIds :
       /\ WithdrawLoopFails(t)
            => /\ tasks[t].ewI = Len(tasks[t].ewBands)
               /\ "CRITICAL" \in notifications'
       /\ (boot' = boot /\ tasks[t].pc = "ew_crit" /\ tasks'[t] # tasks[t])
            => state' = "STOPPED"]_vars


\* the list is in ascending tickLower order
SortedBands(bs) ==
  \A i \in 1..(Len(bs) - 1) : bs[i].tickLower <= bs[i + 1].tickLower

\* each band starts where its predecessor ends
ContiguousBands(bs) ==
  \A i \in 1..(Len(bs) - 1) : bs[i].tickUpper = bs[i + 1].tickLower

\* every band is `width` ticks wide
EqualWidthBands(bs, width) ==
  \A i \in 1..Len(bs) : bs[i].tickUpper - bs[i].tickLower = width

\* a step of initialize(), the caller of setBands for persisted and adopted ledgers
Initializes ==
  /\ ~initDone
  /\ initDone'

\* C21: setBands sorts by tickLower and rejects a list that is not contiguous or
\* whose bands are not `width` wide, so the ledger that initialize installs through
\* setBands, from the state file or from the positions found on chain, is sorted,
\* contiguous and equal-width.
C21_SetBandsAsserts ==
  [][Initializes
       => /\ SortedBands(bands')
          /\ ContiguousBands(bands')
          /\ bands' # <<>> => EqualWidthBands(bands', bandTickWidth')]_vars


\* ticks at which the ledger is probed: the pool ticks, and every band bound with the
\* tick below it
ProbeTicks ==
  Ticks \cup UNION {{bands[i].tickLower - 1, bands[i].tickLower,
                     bands[i].tickUpper - 1, bands[i].tickUpper} : i \in 1..Len(bands)}

\* the 0-based positions of the bands that contain the tick, by the half-open rule
Containing(bs, tick) ==
  {i - 1 : i \in {j \in 1..Len(bs) : bs[j].tickLower <= tick /\ tick < bs[j].tickUpper}}

\* C22: getBandIndexForTick(t) returns the unique index i with
\* bands[i].tickLower <= t < bands[i].tickUpper (a tick equal to a band's tickUpper
\* belongs to the next band), and -1 iff no band contains t.
C22_BandIndexUnique ==
  \A tick \in ProbeTicks :
    LET idx == getBandIndexForTick(bands, tick)
    IN  /\ idx = -1 <=> Containing(bands, tick) = {}
        /\ idx # -1 => Containing(bands, tick) = {idx}


\* a ledger of 7 contiguous bands
SevenContiguous(bs) ==
  /\ Len(bs) = BAND_COUNT
  /\ ContiguousBands(bs)
  /\ \A i \in 1..Len(bs) : bs[i].tickLower < bs[i].tickUpper

\* C23: for a ledger of 7 contiguous bands every tick falls in exactly one class:
\* safe zone iff its band index is 2, 3 or 4; lower trigger iff its index is 0 or 1 or
\* it lies below all bands; upper trigger iff its index is 5 or 6 or it lies at or
\* above the top bound; isInSafeZone is true iff getTriggerDirection is null.
C23_TickClasses ==
  SevenContiguous(bands)
    => \A tick \in ProbeTicks :
         LET safe == isInSafeZone(bands, tick)
             dir == getTriggerDirection(bands, tick)
             hit == Containing(bands, tick)
             isSafe == hit \cap {2, 3, 4} # {}
             isLower == hit \cap {0, 1} # {} \/ tick < bands[1].tickLower
             isUpper == hit \cap {5, 6} # {} \/ tick >= bands[Len(bands)].tickUpper
         IN  /\ safe <=> isSafe
             /\ dir = "lower" <=> isLower
             /\ dir = "upper" <=> isUpper
             /\ safe <=> dir = "none"
             /\ isSafe \/ isLower \/ isUpper
             /\ ~(isSafe /\ isLower) /\ ~(isSafe /\ isUpper) /\ ~(isLower /\ isUpper)

\* C23, witness: the engine monitors a ledger of 7 contiguous bands, and the pool
\* ticks include one of its safe zone and one of its upper trigger zone
C23_Witness ==
  /\ SevenContiguous(bands)
  /\ state = "MONITORING"
  /\ AtRest
  /\ \E tick \in Ticks : isInSafeZone(bands, tick)
  /\ \E tick \in Ticks : getTriggerDirection(bands, tick) = "upper"
  /\ \E tick \in ProbeTicks : getTriggerDirection(bands, tick) = "lower"


\* C24: after every ledger mutation (setBands, removeBand, addBand) each stored band's
\* index field equals its position in the tickLower-ordered list: the indices are
\* exactly 0..n-1 in order.
C24_IndicesInOrder ==
  /\ SortedBands(bands)
  /\ \A i \in 1..Len(bands) : bands[i].index = i - 1


\* C25: the tokenIds in the ledger are unique in every reachable state (the position
\* manager hands out a fresh tokenId with every mint).
C25_TokenIdsUnique ==
  \A i, j \in 1..Len(bands) : bands[i].tokenId = bands[j].tokenId => i = j

\* C25, witness: a rebalance has replaced a band of the initial layout by a newly
\* minted one, and the engine monitors the 7-band ledger
C25_Witness ==
  /\ Len(bands) = BAND_COUNT
  /\ \E i \in 1..Len(bands) : bands[i].tokenId > BAND_COUNT
  /\ state = "MONITORING"
  /\ AtRest


\* fee tiers, range widths (percent) and centre ticks at which the layout is probed
FeeTiers == {100, 500, 3000, 10000}
RangeWidths == {1, 3, 10}
CenterTicks == {MIN_TICK, MIN_TICK + 50, MIN_TICK + 147, MIN_TICK + 1000, -200000, -1001,
                -60, -25, -1, 0, 5, 30, 60, 400, 484, 520, 1000, 200000, MAX_TICK - 1000,
                MAX_TICK - 147, MAX_TICK - 50, MAX_TICK}

Aligned(tick, spacing) == tick % spacing = 0

\* in every fee tier the bounds of the bands of a layout, and of the band a rebalance
\* adds below or above it, are multiples of the tick spacing
LayoutsAligned ==
  \A feeTier \in FeeTiers, w \in RangeWidths, centerTick \in CenterTicks :
    LET layout == calculateBands(centerTick, w, feeTier)
        spacing == feeToTickSpacing(feeTier)
    IN  /\ Aligned(layout.bandTickWidth, spacing)
        /\ \A i \in 1..BAND_COUNT :
             /\ Aligned(layout.bands[i].tickLower, spacing)
             /\ Aligned(layout.bands[i].tickUpper, spacing)
        /\ \A direction \in {"lower", "upper"} :
             LET nb == getNewBandTicks(layout.bands, layout.bandTickWidth, direction)
             IN  Aligned(nb.tickLower, spacing) /\ Aligned(nb.tickUpper, spacing)

layoutBands(centerTick, w, feeTier) ==
  /\ bands = <<>>
  /\ consecutiveErrors = 0
  /\ LET layout == calculateBands(centerTick, w, feeTier)
     IN  IF layout.ok
         THEN /\ bands' = [i \in 1..BAND_COUNT |->
                             [index |-> layout.bands[i].index, tokenId |-> 0,
                              tickLower |-> layout.bands[i].tickLower,
                              tickUpper |-> layout.bands[i].tickUpper]]
              /\ bandTickWidth' = layout.bandTickWidth
              /\ UNCHANGED consecutiveErrors
         ELSE /\ consecutiveErrors' = consecutiveErrors + 1
              /\ UNCHANGED <<bands, bandTickWidth>>
  /\ UNCHANGED <<state, lastRebalanceTime, rebalanceLock, stopped, initialValue, store, disk,
                 chainOwned, nextTokenId, now, boot, wired, initDone, stopCalled,
                 notifications, tasks, faults, overlaps>>
  /\ UNCHANGED rpcVars

LayoutNext ==
  \E centerTick \in CenterTicks, w \in RangeWidths, feeTier \in FeeTiers :
    layoutBands(centerTick, w, feeTier)

LayoutSpec == Init /\ [][LayoutNext]_vars

\* C27: calculateBands fails the layout whenever clamping to [minTick, maxTick]
\* collapses any of the 7 bands (tickLower >= tickUpper), at either end of the tick
\* range: a layout it returns contains no collapsed band.
C27_NoCollapsedBand ==
  \A i \in 1..Len(bands) : bands[i].tickLower < bands[i].tickUpper


\* the engine fields initialize() works on
EngineNow ==
  [bands |-> bands, bandTickWidth |-> bandTickWidth,
   lastRebalanceTime |-> lastRebalanceTime, state |-> state]

\* the engine fields as a call of initialize() left them
EngineAfter(r) ==
  [bands |-> r.bands, bandTickWidth |-> r.bandTickWidth,
   lastRebalanceTime |-> r.lastRebalanceTime, state |-> r.state]

\* C28: re-calling initialize() without an intervening state change is a no-op beyond
\* approvals and queries: after a first call that returned, a second call, whether it
\* returns or one of its queries rejects, leaves ledger, lastRebalanceTime, engine
\* state and the pool state of the store as the first call left them, writes nothing
\* and sends no further RECOVERY notification.
C28_InitializeIdempotent ==
  ~initDone
    => LET first == initializeCall(EngineNow, store, chainOwned, "ok")
       IN  \A outcome \in {"ok", "findFail", "approveFail"} :
             LET second == initializeCall(EngineAfter(first), first.store, chainOwned, outcome)
             IN  (outcome = "findFail" => second.lookup)
                   => /\ EngineAfter(second) = EngineAfter(first)
                      /\ second.store = first.store
                      /\ ~second.recovering

\* C28, witness: a process is about to call initialize() on a state file that holds a
\* checkpoint, with positions of the wallet on chain: the first call recovers, sends
\* RECOVERY and adopts the positions
C28_Witness ==
  /\ ~initDone
  /\ boot > 1
  /\ store.rebalanceStage # "none"
  /\ store.bands # <<>>
  /\ \E i \in 1..Len(chainOwned) : chainOwned[i].liq


\* a step in which the seventh mint of the initial layout of invocation t succeeds
LayoutMinted(t) ==
  /\ boot' = boot
  /\ tasks[t].pc = "mi_mint"
  /\ tasks'[t].pc = "mi_notify"

\* a step in which invocation t leaves mintInitialBands after its seventh mint
LayoutReturns(t) ==
  /\ boot' = boot
  /\ tasks[t].pc = "mi_notify"
  /\ tasks'[t] # tasks[t]

\* the mint calls are 7, in ascending tick order, for contiguous bands of one width,
\* the middle one around the tick
SevenAscendingMints(mints, tick) ==
  /\ Len(mints) = BAND_COUNT
  /\ \A i \in 1..(Len(mints) - 1) :
       /\ mints[i].tickUpper = mints[i + 1].tickLower
       /\ mints[i].tickUpper - mints[i].tickLower
            = mints[i + 1].tickUpper - mints[i + 1].tickLower
  /\ \A i \in 1..Len(mints) : mints[i].tickLower < mints[i].tickUpper
  /\ Len(mints) = BAND_COUNT
       => mints[4].tickLower <= tick /\ tick < mints[4].tickUpper

\* C29: a non-depeg price tick that arrives in MONITORING with an empty ledger makes
\* the engine issue exactly 7 mint calls, in ascending tick order, for a contiguous
\* equal-width layout around the tick; when all succeed the ledger holds those 7
\* bands, persistence holds 7 bands and bandTickWidth with no rebalanceStage, and the
\* state returns to MONITORING.
C29_InitialMint ==
  [][\A t \in TaskIds :
       /\ LayoutMinted(t)
            => LET mints == EventsOf(tasks'[t].log, "mint")
               IN  /\ SevenAscendingMints(mints, tasks[t].tick)
                   /\ Len(bands') = BAND_COUNT
                   /\ \A i \in 1..Len(bands') :
                        /\ bands'[i].tickLower = mints[i].tickLower
                        /\ bands'[i].tickUpper = mints[i].tickUpper
                   /\ disk'.bands = BandStates(bands')
                   /\ disk'.bandTickWidth = bandTickWidth'
                   /\ disk'.bandTickWidth = bands'[1].tickUpper - bands'[1].tickLower
                   /\ disk'.rebalanceStage = "none"
       /\ LayoutReturns(t) => state' = "MONITORING"]_vars


\* C30: the rebalance lock is released on all exit paths: whenever no
\* mintInitialBands, executeBandRebalance or emergencyWithdraw is executing,
\* isRebalancing() is false, whether the operation ended in success, in a handled
\* failure or in a loss-limit stop.
C30_LockReleased ==
  AtRest => ~rebalanceLock

\* C30, witness: a rebalance ran into the portfolio loss limit, its emergency withdraw
\* failed on a band, and both have returned
C30_Witness ==
  /\ AtRest
  /\ "ALERT_PORTFOLIO_LOSS" \in notifications
  /\ "CRITICAL" \in notifications
  /\ state = "STOPPED"
  /\ ~rebalanceLock

(* --------------------------- the chain connection ----------------------- *)
MaxNonce == 3
MaxTxCount == 2

\* what getTransactionCount can return, and what the state file can hold as lastNonce
TxCounts == 0..MaxTxCount
PersistedNonces == {Undef} \cup TxCounts

engineVars == <<state, bands, bandTickWidth, lastRebalanceTime, consecutiveErrors,
                rebalanceLock, stopped, initialValue, store, disk, chainOwned,
                nextTokenId, now, boot, wired, initDone, stopCalled, notifications, tasks,
                faults, overlaps>>

providerVars == <<rpcUrlCount, currentIndex, rpcConsecutiveErrors, errorRun, failovers,
                  walletUrl>>

RemoveAt(s, k) == [i \in 1..(Len(s) - 1) |-> IF i < k THEN s[i] ELSE s[i + 1]]

NonceCall(op, persisted, latest, pending, before) ==
  [op |-> op, persisted |-> persisted, latest |-> latest, pending |-> pending,
   before |-> before]

(* ----------------------------- NonceTracker ---------------------------- *)
\* variant: initialize takes the persisted nonce whenever there is one
initializedNonceFrom(persistedNonce, onChainNonce) ==
  IF persistedNonce # Undef THEN persistedNonce ELSE onChainNonce

\* persistedNonce !== undefined ? Math.max(persistedNonce, onChainNonce) : onChainNonce
initializedNonce(persistedNonce, onChainNonce) ==
  IF persistedNonce # Undef THEN Max(persistedNonce, onChainNonce) ELSE onChainNonce

\* Math.max(this.currentNonce ?? 0, onChainNonce)
syncedNonce(nonce, onChainNonce) ==
  Max(IF nonce = Undef THEN 0 ELSE nonce, onChainNonce)

\* NonceTracker.initialize up to its await, called by RebalanceEngine.initialize with
\* the lastNonce of the state file
nonceInitialize(persistedNonce) ==
  /\ ~initDone
  /\ currentNonce = Undef
  /\ \A k \in 1..Len(nonceCalls) : nonceCalls[k].op # "initialize"
  /\ nonceCalls' = Append(nonceCalls, [op |-> "initialize", persisted |-> persistedNonce])
  /\ UNCHANGED <<currentNonce, nonceLast>>
  /\ UNCHANGED providerVars
  /\ UNCHANGED engineVars

\* getTransactionCount(walletAddress, 'latest') of initialize settled: the count at the
\* latest block comes back while the wallet may have more transactions pending; a
\* rejection leaves RebalanceEngine.initialize by its exception
nonceInitialized(k) ==
  /\ k \in 1..Len(nonceCalls)
  /\ nonceCalls[k].op = "initialize"
  /\ nonceCalls' = RemoveAt(nonceCalls, k)
  /\ \/ /\ \E latest \in TxCounts, pending \in TxCounts :
             /\ latest <= pending
             /\ currentNonce' = initializedNonce(nonceCalls[k].persisted, latest)
             /\ nonceLast' = NonceCall("initialize", nonceCalls[k].persisted, latest, pending,
                                       currentNonce)
        /\ UNCHANGED initDone
     \/ /\ initDone' = TRUE
        /\ UNCHANGED <<currentNonce, nonceLast>>
  /\ UNCHANGED providerVars
  /\ UNCHANGED <<state, bands, bandTickWidth, lastRebalanceTime, consecutiveErrors,
                 rebalanceLock, stopped, initialValue, store, disk, chainOwned,
                 nextTokenId, now, boot, wired, stopCalled, notifications, tasks,
                 faults, overlaps>>

\* NonceTracker.getNextNonce: returns the nonce, or throws before initialize
getNextNonce ==
  /\ nonceLast' = NonceCall("getNextNonce", Undef, 0, 0, currentNonce)
  /\ UNCHANGED <<currentNonce, nonceCalls>>
  /\ UNCHANGED providerVars
  /\ UNCHANGED engineVars

\* NonceTracker.confirmNonce: this.currentNonce++, or throws before initialize
confirmNonce ==
  /\ currentNonce < MaxNonce
  /\ currentNonce' = IF currentNonce = Undef THEN Undef ELSE currentNonce + 1
  /\ nonceLast' = NonceCall("confirmNonce", Undef, 0, 0, currentNonce)
  /\ UNCHANGED nonceCalls
  /\ UNCHANGED providerVars
  /\ UNCHANGED engineVars

\* getTransactionCount(walletAddress, 'latest') of syncOnFailover settled; a rejection
\* is logged by the caller
nonceSynced(k) ==
  /\ k \in 1..Len(nonceCalls)
  /\ nonceCalls[k].op = "syncOnFailover"
  /\ nonceCalls' = RemoveAt(nonceCalls, k)
  /\ \/ \E latest \in TxCounts, pending \in TxCounts :
          /\ latest <= pending
          /\ currentNonce' = syncedNonce(currentNonce, latest)
          /\ nonceLast' = NonceCall("syncOnFailover", Undef, latest, pending, currentNonce)
     \/ UNCHANGED <<currentNonce, nonceLast>>
  /\ UNCHANGED providerVars
  /\ UNCHANGED engineVars

(* --------------------------- FailoverProvider -------------------------- *)
maxConsecutiveErrors == 5
MaxUrls == 3
MaxFailovers == 2
MaxErrorRun == 7

\* fragment: applyFailover of main's callback for invocation e of `fs`: wallet and pool
\* contract are rebuilt on the new provider, syncOnFailover is called, the alert is sent
applyFailover(fs, e) ==
  /\ walletUrl' = fs[e].provider
  /\ nonceCalls' = Append(nonceCalls, [op |-> "syncOnFailover", persisted |-> Undef])
  /\ failovers' = [fs EXCEPT ![e].applied = fs[e].applied + 1, ![e].interval = FALSE]

\* the callback main registers: applyFailover at once, or, while engine.isRebalancing(),
\* a 1 s interval that polls the lock and a 30 s timeout
failoverCallback(fromUrl, toUrl, newProvider) ==
  LET fs == Append(failovers, [from |-> fromUrl, to |-> toUrl, provider |-> newProvider,
                              applied |-> 0, interval |-> FALSE, timeout |-> FALSE])
      e == Len(fs)
  IN  IF rebalanceLock
      THEN /\ failovers' = [fs EXCEPT ![e].interval = TRUE, ![e].timeout = TRUE]
           /\ UNCHANGED <<walletUrl, nonceCalls>>
      ELSE applyFailover(fs, e)

\* variant: a success leaves the error counter alone
recordSuccessKeep ==
  /\ errorRun' = 0
  /\ UNCHANGED <<rpcConsecutiveErrors, rpcUrlCount, currentIndex, failovers, walletUrl>>
  /\ UNCHANGED <<currentNonce, nonceCalls, nonceLast>>
  /\ UNCHANGED engineVars

\* FailoverProvider.recordSuccess
recordSuccess ==
  /\ rpcConsecutiveErrors' = 0
  /\ errorRun' = 0
  /\ UNCHANGED <<rpcUrlCount, currentIndex, failovers, walletUrl>>
  /\ UNCHANGED <<currentNonce, nonceCalls, nonceLast>>
  /\ UNCHANGED engineVars

\* FailoverProvider.recordError with switchToNext and the callback, as the 'error'
\* handler of the pool monitor calls it
recordError ==
  /\ wired
  /\ errorRun < MaxErrorRun
  /\ LET nextIndex == (currentIndex + 1) % rpcUrlCount
     IN  IF rpcConsecutiveErrors + 1 >= maxConsecutiveErrors /\ rpcUrlCount > 1
            /\ nextIndex # currentIndex
         THEN /\ Len(failovers) < MaxFailovers
              /\ currentIndex' = nextIndex
              /\ rpcConsecutiveErrors' = 0
              /\ errorRun' = 0
              /\ failoverCallback(currentIndex, nextIndex, nextIndex)
         ELSE /\ rpcConsecutiveErrors' = rpcConsecutiveErrors + 1
              /\ errorRun' = errorRun + 1
              /\ UNCHANGED <<currentIndex, failovers, walletUrl, nonceCalls>>
  /\ UNCHANGED <<rpcUrlCount, currentNonce, nonceLast>>
  /\ UNCHANGED engineVars

\* the 1 s interval of a deferred failover fires: if (!engine.isRebalancing())
\* { clearInterval(deferInterval); applyFailover() }
deferPoll(e) ==
  /\ e \in 1..Len(failovers)
  /\ failovers[e].interval
  /\ ~rebalanceLock
  /\ applyFailover(failovers, e)
  /\ UNCHANGED <<rpcUrlCount, currentIndex, rpcConsecutiveErrors, errorRun, currentNonce,
                 nonceLast>>
  /\ UNCHANGED engineVars

\* the 30 s timeout of a deferred failover fires: clearInterval(deferInterval);
\* applyFailover()
deferTimeout(e) ==
  /\ e \in 1..Len(failovers)
  /\ failovers[e].timeout
  /\ applyFailover([failovers EXCEPT ![e].timeout = FALSE], e)
  /\ UNCHANGED <<rpcUrlCount, currentIndex, rpcConsecutiveErrors, errorRun, currentNonce,
                 nonceLast>>
  /\ UNCHANGED engineVars

(* ------------------ the engine behind its chain connection -------------- *)
\* main with a nonce tracker and one to MaxUrls RPC URLs, on a state file without
\* bands; the collaborators of the engine do not fail here
RpcInit ==
  /\ state = "IDLE"
  /\ bands = <<>>
  /\ bandTickWidth = 0
  /\ lastRebalanceTime = 0
  /\ consecutiveErrors = 0
  /\ rebalanceLock = FALSE
  /\ stopped = FALSE
  /\ initialValue = 0
  /\ store = EmptyPoolState
  /\ disk = EmptyPoolState
  /\ chainOwned = <<>>
  /\ nextTokenId = 1
  /\ now = StartTime
  /\ boot = 1
  /\ wired = FALSE
  /\ initDone = FALSE
  /\ stopCalled = FALSE
  /\ notifications = {}
  /\ tasks = [t \in TaskIds |-> IdleTask]
  /\ faults = MaxFaults
  /\ overlaps = 0
  /\ currentNonce = Undef
  /\ nonceCalls = <<>>
  /\ nonceLast = NoCall
  /\ rpcUrlCount \in 1..MaxUrls
  /\ currentIndex = 0
  /\ rpcConsecutiveErrors = 0
  /\ errorRun = 0
  /\ failovers = <<>>
  /\ walletUrl = 0

\* RebalanceEngine.initialize after its nonce tracker has been initialized
initializeWithTracker ==
  /\ currentNonce # Undef
  /\ initialize

\* the engine takes part with its start and its initial mint, which holds the
\* rebalance lock as a band rebalance does
RpcNext ==
  \/ \E persistedNonce \in PersistedNonces : nonceInitialize(persistedNonce)
  \/ \E k \in 1..MaxFailovers * 2 + 1 : nonceInitialized(k)
  \/ getNextNonce
  \/ confirmNonce
  \/ \E k \in 1..MaxFailovers * 2 + 1 : nonceSynced(k)
  \/ recordSuccess
  \/ recordError
  \/ \E e \in 1..MaxFailovers : deferPoll(e)
  \/ \E e \in 1..MaxFailovers : deferTimeout(e)
  \/ initializeWithTracker
  \/ \E t \in TaskIds : onPriceUpdate(t, 400)
  \/ \E t \in TaskIds : mintBalances(t)
  \/ \E t \in TaskIds : mintStep(t)
  \/ \E t \in TaskIds : mintNotified(t)

RpcSpec == RpcInit /\ [][RpcNext]_vars

(* ---------------------- claims on the chain connection ------------------ *)
\* max(persisted nonce, count), the count alone when no nonce was persisted
MaxOfPersisted(persisted, count) ==
  IF persisted = Undef THEN count ELSE IF persisted >= count THEN persisted ELSE count

\* the nonce is what the call that returned last made of the nonce before it, with
\* `count` the on-chain count the call is said to use
NonceEffect(count) ==
  /\ nonceLast.op = "initialize" => currentNonce = MaxOfPersisted(nonceLast.persisted, count)
  /\ (nonceLast.op = "confirmNonce" /\ nonceLast.before # Undef)
       => currentNonce = nonceLast.before + 1
  /\ nonceLast.op = "getNextNonce" => currentNonce = nonceLast.before
  /\ nonceLast.op = "syncOnFailover"
       => currentNonce = MaxOfPersisted(IF nonceLast.before = Undef THEN 0 ELSE nonceLast.before,
                                        count)

NonceGrows == currentNonce # Undef => currentNonce' >= currentNonce

\* C31: the NonceTracker's nonce never decreases once initialized: initialize sets it
\* to max(persisted nonce, on-chain pending count), confirmNonce increases it by
\* exactly 1, getNextNonce does not change it, and syncOnFailover sets it to
\* max(current nonce, on-chain pending count).
C31_NoncePendingCount ==
  [][NonceGrows /\ NonceEffect(nonceLast.pending)']_vars

\* C31, as amended: the same with the on-chain count being the transaction count at
\* the latest block, which is what getTransactionCount(address, 'latest') returns; the
\* transactions still pending are not counted.
C31_NonceLatestCount ==
  [][NonceGrows /\ NonceEffect(nonceLast.latest)']_vars

\* C31, witness: a sync on failover kept a nonce that confirmNonce had taken beyond
\* the count at the latest block, while a transaction was pending
C31_Witness ==
  /\ nonceLast.op = "syncOnFailover"
  /\ nonceLast.before > nonceLast.latest
  /\ nonceLast.pending > nonceLast.latest
  /\ currentNonce = nonceLast.before

\* a step of recordError: one more error in the run, or the switch that ends the run
RecordsError == errorRun' = errorRun + 1 \/ currentIndex' # currentIndex

Switches == currentIndex' # currentIndex

\* C32: FailoverProvider switches to the next RPC URL (round-robin) exactly when
\* maxConsecutiveErrors recordError calls occur with no recordSuccess in between and
\* more than one URL is configured; on each switch the error counter is reset and the
\* failover callback is invoked once with the old URL, the new URL and the new
\* provider; with a single URL it never switches.
C32_FailoverSwitch ==
  [][RecordsError
       => /\ Switches <=> (errorRun + 1 = maxConsecutiveErrors /\ rpcUrlCount > 1)
          /\ Switches
               => /\ currentIndex' = (currentIndex + 1) % rpcUrlCount
                  /\ rpcConsecutiveErrors' = 0
                  /\ Len(failovers') = Len(failovers) + 1
                  /\ failovers'[Len(failovers')].from = currentIndex
                  /\ failovers'[Len(failovers')].to = currentIndex'
                  /\ failovers'[Len(failovers')].provider = currentIndex'
                  /\ \A e \in 1..Len(failovers) :
                       failovers'[e].from = failovers[e].from /\ failovers'[e].to = failovers[e].to
          /\ ~Switches => failovers' = failovers
          /\ rpcUrlCount = 1 => ~Switches]_vars

\* C32, witness: with two URLs the provider has switched to the backup and, after
\* another run of errors, back to the primary
C32_Witness ==
  /\ rpcUrlCount = 2
  /\ Len(failovers) = 2
  /\ failovers[1].from = 0 /\ failovers[1].to = 1
  /\ failovers[2].from = 1 /\ failovers[2].to = 0
  /\ currentIndex = 0
  /\ rpcConsecutiveErrors = 0

(* ---------------------------- claims, continued ------------------------- *)
\* a step in which invocation t sends a mint or a swap to the chain
IssuesMintOrSwap(t) ==
  /\ Len(tasks'[t].log) = Len(tasks[t].log) + 1
  /\ tasks'[t].log[Len(tasks'[t].log)].e \in {"mint", "swap"}

\* C33: once the emergency stop flag has been triggered (by depeg, a loss limit or
\* three consecutive errors) and not reset, the engine issues no further mint or swap,
\* in any ledger state including an empty ledger.
C33_StopBlocksMintAndSwap ==
  [][(stopped /\ boot' = boot) => \A t \in TaskIds : ~IssuesMintOrSwap(t)]_vars

Tracked(tokenId) == \E k \in 1..Len(bands) : bands[k].tokenId = tokenId

\* C34: no position is left untracked: whenever the engine is at rest, every position
\* it has minted and not removed is recorded in the ledger, including after an initial
\* mint in which some but not all of the 7 mint calls succeeded.
C34_NoUntrackedPosition ==
  (AtRest /\ initDone)
    => \A i \in 1..Len(chainOwned) : chainOwned[i].liq => Tracked(chainOwned[i].tokenId)

InBand(b, tick) == tick >= b.tickLower /\ tick < b.tickUpper

\* a step in which rebalance t picks the band to dissolve
PicksBand(t) ==
  /\ boot' = boot
  /\ tasks[t].pc = "rb_preBal"
  /\ tasks'[t].pc = "rb_getPos"

\* a step in which rebalance t takes its band out of the ledger
DropsBand(t) ==
  /\ boot' = boot
  /\ tasks[t].pc \in {"rb_getPos", "rb_remove"}
  /\ tasks'[t].pc # tasks[t].pc
  /\ bands' # bands

\* C35: the band dissolved by a rebalance never contains the tick that triggered it,
\* and rebalancing never empties the ledger: for every ledger size reachable after
\* failed rebalances, the band chosen by getBandToDissolve differs from the band
\* holding the current tick and at least one band remains.
C35_DissolvedBandAwayFromTick ==
  [][\A t \in TaskIds :
       /\ PicksBand(t)
            => /\ ~InBand(tasks'[t].band, tasks[t].tick)
               /\ getBandIndexForTick(bands, tasks[t].tick) # -1
                    => tasks'[t].band.tokenId
                         # bands[getBandIndexForTick(bands, tasks[t].tick) + 1].tokenId
       /\ DropsBand(t) => bands' # <<>>]_vars

(* ------------------------- a ledger grown short ------------------------- *)
\* a ledger that failed rebalances have brought down to two bands (a rebalance that
\* fails after removeBand leaves one band less, and the next success persists it),
\* as an earlier process left it in the state file
ShortLedger ==
  <<[index |-> 0, tokenId |-> 1, tickLower |-> 337, tickUpper |-> 379],
    [index |-> 1, tokenId |-> 2, tickLower |-> 379, tickUpper |-> 421]>>

\* main starts on a state file that holds the given ledger (none: no pool entry yet),
\* with the given part of the failure budget already spent
LedgerFileInit(ledger, spent) ==
  /\ state = "IDLE"
  /\ bands = <<>>
  /\ bandTickWidth = 0
  /\ lastRebalanceTime = 0
  /\ consecutiveErrors = 0
  /\ rebalanceLock = FALSE
  /\ stopped = FALSE
  /\ initialValue = 0
  /\ store = IF ledger = <<>> THEN EmptyPoolState ELSE persistStateUpdate(ledger, 42, 0)
  /\ disk = IF ledger = <<>> THEN EmptyPoolState ELSE persistStateUpdate(ledger, 42, 0)
  /\ chainOwned = [i \in 1..Len(ledger) |->
                     [tokenId |-> ledger[i].tokenId, tickLower |-> ledger[i].tickLower,
                      tickUpper |-> ledger[i].tickUpper, liq |-> TRUE]]
  /\ nextTokenId = Len(ledger) + 1
  /\ now = StartTime
  /\ boot = 1
  /\ wired = FALSE
  /\ initDone = FALSE
  /\ stopCalled = FALSE
  /\ notifications = {}
  /\ tasks = [t \in TaskIds |-> IdleTask]
  /\ faults = spent
  /\ overlaps = 0
  /\ currentNonce = Undef
  /\ nonceCalls = <<>>
  /\ nonceLast = NoCall
  /\ rpcUrlCount = 1
  /\ currentIndex = 0
  /\ rpcConsecutiveErrors = 0
  /\ errorRun = 0
  /\ failovers = <<>>
  /\ walletUrl = 0

ShortLedgerInit == LedgerFileInit(ShortLedger, 0)

\* the engine's operations; the portfolio loss limit is left out: it compares with
\* the value of an initial mint of this process, and a process that restored its
\* ledger has none
ShortLedgerNext ==
  \/ Restart
  \/ ClockTick
  \/ initialize
  \/ stop
  \/ \E t \in TaskIds, tick \in Ticks : onPriceUpdate(t, tick)
  \/ \E t \in TaskIds : mintBalances(t)
  \/ \E t \in TaskIds : mintStep(t)
  \/ \E t \in TaskIds : mintNotified(t)
  \/ \E t \in TaskIds : rebalanceStart(t)
  \/ \E t \in TaskIds : rebalancePreValue(t)
  \/ \E t \in TaskIds : rebalanceGotPosition(t)
  \/ \E t \in TaskIds : rebalanceRemoved(t)
  \/ \E t \in TaskIds : rebalanceSwapDecision(t)
  \/ \E t \in TaskIds : rebalanceSwapped(t)
  \/ \E t \in TaskIds : rebalanceMintCall(t)
  \/ \E t \in TaskIds : rebalanceMinted(t)
  \/ \E t \in TaskIds : rebalanceLossNotified(t)
  \/ \E t \in TaskIds : rebalanceNotified(t)
  \/ \E t \in TaskIds : emergencyGotPosition(t)
  \/ \E t \in TaskIds : emergencyRemoved(t)
  \/ \E t \in TaskIds : emergencyNotified(t)
  \/ \E t \in TaskIds : emergencyFailed(t)

ShortLedgerSpec == ShortLedgerInit /\ [][ShortLedgerNext]_vars

(* -------------------------- the price held still ------------------------ *)
\* the tick the price is held at: a trigger tick of the layout centred at 400
HeldTick == 484

\* a full ledger two bands below the layout that has HeldTick in its safe zone
FarLedger ==
  [i \in 1..BAND_COUNT |->
     [index |-> i - 1, tokenId |-> i,
      tickLower |-> 211 + 42 * (i - 1), tickUpper |-> 211 + 42 * i]]

\* no collaborator fails (the failure budget is spent) and no delivery overlaps
HeldPriceInit ==
  \E ledger \in {<<>>, ShortLedger, FarLedger} : LedgerFileInit(ledger, MaxFaults)

\* the settled await of task t, whichever it is waiting for
HeldPriceStep(t) ==
  \/ mintBalances(t)
  \/ mintStep(t)
  \/ mintNotified(t)
  \/ rebalanceStart(t)
  \/ rebalancePreValue(t)
  \/ rebalanceGotPosition(t)
  \/ rebalanceRemoved(t)
  \/ rebalanceSwapDecision(t)
  \/ rebalanceSwapped(t)
  \/ rebalanceMintCall(t)
  \/ rebalanceMinted(t)
  \/ rebalanceLossNotified(t)
  \/ rebalanceNotified(t)

HeldPricePoll == \E t \in TaskIds : onPriceUpdate(t, HeldTick)

HeldPriceNext ==
  \/ ClockTick
  \/ initialize
  \/ HeldPricePoll
  \/ \E t \in TaskIds : HeldPriceStep(t)

\* the clock runs, main gets to engine.initialize, the monitor keeps polling and
\* every pending promise settles
HeldPriceSpec ==
  /\ HeldPriceInit
  /\ [][HeldPriceNext]_vars
  /\ WF_vars(ClockTick)
  /\ WF_vars(initialize)
  /\ WF_vars(HeldPricePoll)
  /\ \A t \in TaskIds : WF_vars(HeldPriceStep(t))

\* the engine is at rest on a ledger whose safe zone holds the tick
Converged ==
  /\ initDone
  /\ state = "MONITORING"
  /\ \A t \in TaskIds : ~Busy(t)
  /\ Len(bands) > 0
  /\ getBandIndexForTick(bands, HeldTick) # -1
  /\ isInSafeZone(bands, HeldTick)

StoppedFile(saved) ==
  /\ saved.bands = <<>>
  /\ saved.bandTickWidth = 0
  /\ saved.rebalanceStage = "none"

\* C37: an emergency stop is durable across restarts: an engine started on the state
\* file that an emergency withdraw left behind never mints or rebalances (no operator
\* action is part of the model)
C37_StopSurvivesRestart ==
  [][(boot > 1 /\ StoppedFile(disk) /\ boot' = boot)
       => \A t \in TaskIds : ~IssuesMintOrSwap(t)]_vars

\* C38: for each RPC failover event the reconnect routine (new wallet and pool
\* contract, nonce sync, failover alert) is applied exactly once, also when it was
\* deferred because a rebalance was in progress: never twice, and once when neither
\* the interval nor the timeout of the deferral is pending any more
C38_ReconnectAppliedOnce ==
  \A e \in 1..Len(failovers) :
    /\ failovers[e].applied <= 1
    /\ (~failovers[e].interval /\ ~failovers[e].timeout) => failovers[e].applied = 1

====
